---- MODULE Spec2Model ----
(***************************************************************************)
(* The flipbook server (src/server.js): socket.io rooms, the asynchronous  *)
(* WebSocket handlers and the REST frame routes, over the Drawing          *)
(* collection (src/unnamed/part_003, models/Drawing.js).                   *)
(*                                                                         *)
(* Every handler that awaits a store call is three steps: the handler's    *)
(* synchronous prefix issues the call (phase "sent"), the store executes   *)
(* it (phase "ok"), and the event loop resumes the handler, which emits.   *)
(* A call the store rejects changes nothing in the store, and the handler  *)
(* resumes in its catch block.  Calls of different handlers are            *)
(* independent: the store may execute them, and the event loop may resume  *)
(* them, in any order.                                                     *)
(***************************************************************************)
EXTENDS Integers, Sequences, FiniteSets, TLC

\* The number of requests (socket events and HTTP requests) the server
\* receives in a run.
MaxOps == 2

\* The sockets that have connected (io.on('connection')); socket.id is the name.
Conns == {"A", "B"}
\* The HTTP side has no socket.
NoConn == "http"
Flipbooks == {"cat", "dog"}
\* A flipbook id that is missing or empty in the event payload.
NoId == ""
Ids == Flipbooks \cup {NoId}
\* A frameIndex that is missing in the event payload (undefined).
NoIdx == -1
NoData == "none"
\* createdBy left out of the payload.
NoBy == ""
\* The :frameIndex segments of the REST paths.
PathIdx == {"0", "1", "01"}
\* newFlipbookId in the body of a rename, as sent: NoId when it is missing
\* or empty.
RawIds == {"cat", "dog", " dog ", " ", NoId}

VARIABLES
    store,      \* the Drawing collection: (flipbookId, frameIndex) -> document
    rooms,      \* socket.rooms: the flipbook rooms each socket has joined
    connected,  \* each socket: "open" or "closed"
    reqs,       \* every request received, in the order the server received it
    pending,    \* the store calls in flight, one per awaiting handler
    done,       \* the handlers that have finished, each with its outcome
    log,        \* per socket, the events the server emitted to it, in order
    http,       \* the HTTP responses sent, in order
    client      \* per socket, the state of the page that holds it

vars == <<store, rooms, connected, reqs, pending, done, log, http, client>>

----------------------------------------------------------------------------
\* Date.now() in a handler: the server's clock, one tick per request, so a
\* request's time is also its place in the order of submission.
Now == Len(reqs) + 1

\* An event payload as the client sends it; body is FALSE when the event
\* carries no payload object at all.
Payload(fb, idx, data, by) ==
    [body |-> TRUE, fb |-> fb, idx |-> idx, data |-> data, by |-> by,
     newId |-> NoId, x |-> 0, y |-> 0]
NoPayload ==
    [body |-> FALSE, fb |-> NoId, idx |-> NoIdx, data |-> NoData, by |-> NoBy,
     newId |-> NoId, x |-> 0, y |-> 0]
\* The body of a rename: {newFlipbookId}.
RenameBody(fb, raw) == [Payload(fb, NoIdx, NoData, NoBy) EXCEPT !.newId = raw]
\* The payload of cursor-move: {flipbookId, x, y, userId}.
CursorPayload(fb, x, y, userId) ==
    [Payload(fb, NoIdx, NoData, userId) EXCEPT !.x = x, !.y = y]

\* The payloads drawn for drawing-update and frame-delete: frames of both
\* flipbooks, a payload without frameIndex, one without flipbookId, and an
\* event without a payload object.
UpdatePayloads ==
    { Payload("cat", 0, "X", NoBy), Payload("cat", 0, "Y", "alice"),
      Payload("dog", 0, "X", NoBy), Payload("cat", NoIdx, "X", NoBy), NoPayload }
DeletePayloads ==
    { Payload("cat", 0, NoData, NoBy), Payload(NoId, 0, NoData, NoBy) }
\* The sockets are interchangeable; the one that may close.
Closers == {"B"}

Request(kind, c, p) ==
    [kind |-> kind, conn |-> c, fb |-> p.fb, idx |-> p.idx, data |-> p.data,
     by |-> p.by, newId |-> p.newId, x |-> p.x, y |-> p.y, at |-> Now]

\* A store call in flight and, once the store has answered, its result.
NoRes ==
    [frames |-> <<>>, found |-> FALSE, data |-> NoData, by |-> NoBy, at |-> 0,
     count |-> 0, summaries |-> <<>>]
Call(id) == [id |-> id, phase |-> "sent", res |-> NoRes]

\* A finished handler: whether its store call returned, and the sockets that
\* were in the request's room when the handler emitted.
Outcome(id, ok, room) == [id |-> id, ok |-> ok, room |-> room]

----------------------------------------------------------------------------
\* The Drawing collection.

Doc(data, by, createdAt, updatedAt) ==
    [data |-> data, by |-> by, createdAt |-> createdAt, updatedAt |-> updatedAt]

\* Upsert as a replacement of the document: createdAt is set anew.
UpsertReplacing(st, k, data, by, at) ==
    [x \in DOMAIN st \cup {k} |-> IF x # k THEN st[x] ELSE Doc(data, by, at, at)]

\* Drawing.findOneAndUpdate(key, {drawingData, createdBy, updatedAt}, {upsert}):
\* an existing document keeps its createdAt; a new one takes the schema
\* default, Date.now, which like updatedAt is evaluated when the handler
\* builds the call (at).
Upsert(st, k, data, by, at) ==
    [x \in DOMAIN st \cup {k} |->
        IF x # k THEN st[x]
        ELSE IF k \in DOMAIN st THEN Doc(data, by, st[k].createdAt, at)
        ELSE Doc(data, by, at, at)]

\* Remove that renumbers: the frames of the flipbook above the removed one
\* move down by one index.
RemoveAndRenumber(st, k) ==
    LET above == {x \in DOMAIN st : x[1] = k[1] /\ x[2] > k[2]}
        kept == DOMAIN st \ ({k} \cup above)
    IN  [x \in kept \cup {<<y[1], y[2] - 1>> : y \in above} |->
            IF <<x[1], x[2] + 1>> \in above THEN st[<<x[1], x[2] + 1>>] ELSE st[x]]

\* Remove with a minimum of one frame for each flipbook: the only frame of
\* a flipbook stays.
RemoveUnlessLast(st, k) ==
    IF \A x \in DOMAIN st : x[1] = k[1] => x = k
    THEN st
    ELSE [x \in DOMAIN st \ {k} |-> st[x]]

\* Drawing.findOneAndDelete(key).
Remove(st, k) == [x \in DOMAIN st \ {k} |-> st[x]]

\* The keys of the documents of flipbook fb.
KeysOf(st, fb) == {k \in DOMAIN st : k[1] = fb}

\* DeleteMany without its filter: Drawing.deleteMany({}).
DeleteEverything(st, fb) == [x \in {} |-> Doc(NoData, NoBy, 0, 0)]

\* Drawing.deleteMany({flipbookId}).
DeleteMany(st, fb) == [x \in DOMAIN st \ KeysOf(st, fb) |-> st[x]]

\* The documents of flipbook old that the unique index (flipbookId,
\* frameIndex) does not let take the id new: new holds their frameIndex.
Collide(st, old, new) ==
    IF old = new THEN {} ELSE {k \in KeysOf(st, old) : <<new, k[2]>> \in DOMAIN st}

\* $set: {flipbookId: new} on the documents with the keys moved.
SetFlipbookId(st, moved, new) ==
    [x \in (DOMAIN st \ moved) \cup {<<new, k[2]>> : k \in moved} |->
        IF x \in DOMAIN st \ moved THEN st[x]
        ELSE st[CHOOSE k \in moved : k[2] = x[2]]]

\* A document as the server serialises it in flipbook-state.
Frame(st, k) ==
    [fb |-> k[1], idx |-> k[2], data |-> st[k].data, by |-> st[k].by,
     createdAt |-> st[k].createdAt, updatedAt |-> st[k].updatedAt]

RECURSIVE SortAsc(_, _)
\* .sort({frameIndex: 1}) over the documents with the keys ks.
SortAsc(st, ks) ==
    IF ks = {} THEN <<>>
    ELSE LET k == CHOOSE x \in ks : \A y \in ks : x[2] <= y[2]
         IN  <<Frame(st, k)>> \o SortAsc(st, ks \ {k})

\* ListFrames without the flipbookId filter: Drawing.find({}).
ListFramesOfAll(st, fb) == SortAsc(st, DOMAIN st)

\* Drawing.find({flipbookId}).sort({frameIndex: 1}).
ListFrames(st, fb) == SortAsc(st, {k \in DOMAIN st : k[1] = fb})

----------------------------------------------------------------------------
\* socket.io.

\* The sockets in room fb.
Members(fb) == {c \in Conns : fb \in rooms[c]}

Event(type, op) ==
    [type |-> type, op |-> op, fb |-> NoId, idx |-> NoIdx, data |-> NoData,
     by |-> NoBy, at |-> 0, frames |-> <<>>, newId |-> NoId, socketId |-> NoConn,
     userId |-> NoBy, x |-> 0, y |-> 0, rcvd |-> TRUE]

\* An emit reaches a socket that is open; socket.io discards it otherwise.
Deliver(c, ev) == Append(log[c], [ev EXCEPT !.rcvd = (connected[c] = "open")])

\* socket.emit(ev): to the socket itself.
Unicast(c, ev) == [x \in Conns |-> IF x = c THEN Deliver(x, ev) ELSE log[x]]

\* ToRoom with socket.to in place of io.to: the sender is left out.
ToRoomExceptSender(fb, ev) ==
    [x \in Conns |->
        IF x \in Members(fb) /\ x # reqs[ev.op].conn THEN Deliver(x, ev) ELSE log[x]]

\* io.to(fb).emit(ev): to every socket in the room.
ToRoom(fb, ev) == [x \in Conns |-> IF x \in Members(fb) THEN Deliver(x, ev) ELSE log[x]]

\* ToOthersThenSelf with io.to in place of socket.to: the sender is sent the
\* broadcast too.
ToRoomThenSelf(c, fb, bev, uev) ==
    [x \in Conns |->
        IF x = c
        THEN (IF x \in Members(fb) THEN Deliver(x, bev) ELSE log[x]) \o
                <<[uev EXCEPT !.rcvd = (connected[x] = "open")]>>
        ELSE IF x \in Members(fb) THEN Deliver(x, bev)
        ELSE log[x]]

\* ToOthersThenSelf with socket.broadcast in place of socket.to(fb): every
\* socket but the sender, whatever its rooms, then the sender.
ToEveryoneThenSelf(c, fb, bev, uev) ==
    [x \in Conns |-> IF x = c THEN Deliver(x, uev) ELSE Deliver(x, bev)]

\* socket.to(fb).emit(bev) then socket.emit(uev): the room without the
\* sender, then the sender.
ToOthersThenSelf(c, fb, bev, uev) ==
    [x \in Conns |->
        IF x = c THEN Deliver(x, uev)
        ELSE IF x \in Members(fb) THEN Deliver(x, bev)
        ELSE log[x]]

----------------------------------------------------------------------------
\* The client (src/unnamed/part_002): the frame list built from a snapshot.

\* The empty frame the client puts where the snapshot has none.
Placeholder(cur, i) == [fb |-> cur, idx |-> i, data |-> NoData]

\* .map(d => ({flipbookId, frameIndex, drawingData: d.drawingData || null})).
ClientFrame(d) == [fb |-> d.fb, idx |-> d.idx, data |-> d.data]

RECURSIVE SortByIndex(_)
\* .sort((a, b) => a.frameIndex - b.frameIndex).
SortByIndex(ds) ==
    IF ds = << >> THEN << >>
    ELSE LET j == CHOOSE x \in DOMAIN ds :
                      /\ \A y \in DOMAIN ds : ds[x].idx <= ds[y].idx
                      /\ \A y \in 1..(x - 1) : ds[y].idx # ds[x].idx
         IN  <<ds[j]>> \o
             SortByIndex(SubSeq(ds, 1, j - 1) \o SubSeq(ds, j + 1, Len(ds)))

\* Math.max(...sortedDrawings.map(d => d.frameIndex)).
MaxIndex(ds) ==
    CHOOSE m \in {ds[j].idx : j \in DOMAIN ds} :
        \A j \in DOMAIN ds : ds[j].idx <= m

\* sortedDrawings.find(d => d.frameIndex === i) || the placeholder.
FindOrEmpty(ds, cur, i) ==
    IF \E j \in DOMAIN ds : ds[j].idx = i
    THEN ds[CHOOSE j \in DOMAIN ds :
                /\ ds[j].idx = i
                /\ \A y \in 1..(j - 1) : ds[y].idx # i]
    ELSE Placeholder(cur, i)

\* The handler of flipbook-state: frames[i] is position i + 1 of the
\* result.  cur is currentFlipbookId, NoId when the client has none.  A
\* frame stored without frameIndex (NoIdx) is found at no position.
BuildFrames(drawings, cur) ==
    LET sortedDrawings == SortByIndex([j \in DOMAIN drawings |-> ClientFrame(drawings[j])])
        frames ==
            IF sortedDrawings = << >> THEN << >>
            ELSE [i \in 1..(MaxIndex(sortedDrawings) + 1) |->
                      FindOrEmpty(sortedDrawings, cur, i - 1)]
    IN  IF frames = << >> /\ cur # NoId THEN <<Placeholder(cur, 0)>> ELSE frames

\* The page that holds a socket: currentFlipbookId (fb), the frame list,
\* currentFrameIndex (cur), isPlaying, the number of events of the socket's
\* log the page has handled (seen), and the fetches whose answer the page
\* awaits (waits).
Page(fb, frames) ==
    [fb |-> fb, frames |-> frames, cur |-> 0, playing |-> FALSE, seen |-> 0,
     waits |-> {}]

----------------------------------------------------------------------------
\* A document saved before the run.
Old(data) == Doc(data, "bob", 0, 0)

\* The server is running: the collection, which is durable, holds two
\* frames of "cat" saved earlier, and both sockets are connected, have
\* joined "cat" and have been sent its state.  The logs start here.
InitStore == (<<"cat", 0>> :> Old("X")) @@ (<<"cat", 1>> :> Old("Y"))
InitRooms == [c \in Conns |-> {"cat"}]

Init ==
    /\ store = InitStore
    /\ rooms = InitRooms
    /\ connected = [c \in Conns |-> "open"]
    /\ reqs = << >>
    /\ pending = {}
    /\ done = {}
    /\ log = [c \in Conns |-> << >>]
    /\ http = << >>
    /\ client = [c \in Conns |-> Page("cat", BuildFrames(ListFrames(InitStore, "cat"), "cat"))]

\* The server takes requests from open sockets.
CanSend(c) == connected[c] = "open" /\ Len(reqs) < MaxOps

\* socket.on('join-flipbook'): join the room, then ask the store.
JoinFlipbook(c, fb) ==
    /\ CanSend(c)
    /\ rooms' = [rooms EXCEPT ![c] = @ \cup {fb}]
    /\ reqs' = Append(reqs, Request("join", c, Payload(fb, NoIdx, NoData, NoBy)))
    /\ pending' = pending \cup {Call(Now)}
    /\ UNCHANGED <<store, connected, done, log, http, client>>

\* LeaveFlipbook leaving every room of the socket.
LeaveEveryRoom(c, fb) ==
    /\ CanSend(c)
    /\ rooms' = [rooms EXCEPT ![c] = {}]
    /\ reqs' = Append(reqs, Request("leave", c, Payload(fb, NoIdx, NoData, NoBy)))
    /\ UNCHANGED <<store, connected, pending, done, log, http, client>>

\* socket.on('leave-flipbook').
LeaveFlipbook(c, fb) ==
    /\ CanSend(c)
    /\ rooms' = [rooms EXCEPT ![c] = @ \ {fb}]
    /\ reqs' = Append(reqs, Request("leave", c, Payload(fb, NoIdx, NoData, NoBy)))
    /\ UNCHANGED <<store, connected, pending, done, log, http, client>>

\* The synchronous prefix of a handler whose first statement destructures
\* the payload: without a payload object the destructuring throws and the
\* catch block emits drawing-error; otherwise the store call is issued,
\* whatever the fields of the payload are.
Submit(kind, c, p) ==
    /\ CanSend(c)
    /\ reqs' = Append(reqs, Request(kind, c, p))
    /\ IF p.body
       THEN /\ pending' = pending \cup {Call(Now)}
            /\ UNCHANGED <<done, log>>
       ELSE /\ pending' = pending
            /\ done' = done \cup {Outcome(Now, FALSE, {})}
            /\ log' = Unicast(c, Event("drawing-error", Now))
    /\ UNCHANGED <<store, rooms, connected, http, client>>

\* socket.on('drawing-update'), up to the await.
DrawingUpdate(c, p) == Submit("update", c, p)

\* socket.on('frame-delete'), up to the await.
FrameDelete(c, p) == Submit("delete", c, p)

\* parseInt(req.params.frameIndex).
ParseInt(s) == CASE s = "0" -> 0 [] s = "1" -> 1 [] s = "01" -> 1

\* A REST frame route up to its await: the store call is issued.
Route(kind, fb, s, data, by) ==
    /\ Len(reqs) < MaxOps
    /\ reqs' = Append(reqs, Request(kind, NoConn, Payload(fb, ParseInt(s), data, by)))
    /\ pending' = pending \cup {Call(Now)}
    /\ UNCHANGED <<store, rooms, connected, done, log, http, client>>

\* app.get('/api/flipbook/:flipbookId/frame/:frameIndex').
RestGetFrame(fb, s) == Route("rest-get", fb, s, NoData, NoBy)

\* app.post('/api/flipbook/:flipbookId/frame/:frameIndex').
RestSaveFrame(fb, s, data, by) == Route("rest-save", fb, s, data, by)

\* app.delete('/api/flipbook/:flipbookId/frame/:frameIndex').
RestDeleteFrame(fb, s) == Route("rest-delete", fb, s, NoData, NoBy)

\* Trim left out: the id as sent.
NoTrim(s) == s

\* newFlipbookId.trim().
Trim(s) == CASE s = " dog " -> "dog" [] s = " " -> "" [] OTHER -> s

\* createdBy: createdBy || socket.id in drawing-update, createdBy ||
\* 'anonymous' in the REST route.
CreatedBy(r) ==
    IF r.by # NoBy THEN r.by
    ELSE IF r.conn = NoConn THEN "anonymous" ELSE r.conn

\* Applied with a version check: an upsert older than the document it
\* finds is dropped.
AppliedIfNewer(st, r) ==
    LET k == <<r.fb, r.idx>>
    IN  CASE r.kind \in {"update", "rest-save"} ->
                IF k \in DOMAIN st /\ st[k].updatedAt > r.at THEN st
                ELSE Upsert(st, k, r.data, CreatedBy(r), r.at)
          [] r.kind \in {"delete", "rest-delete"} -> Remove(st, k)
          [] r.kind = "delete-flipbook" -> DeleteMany(st, r.fb)
          [] OTHER -> st

\* The collection after the store has executed the call of request r.
Applied(st, r) ==
    CASE r.kind \in {"update", "rest-save"} ->
            Upsert(st, <<r.fb, r.idx>>, r.data, CreatedBy(r), r.at)
      [] r.kind \in {"delete", "rest-delete"} -> Remove(st, <<r.fb, r.idx>>)
      [] r.kind = "delete-flipbook" -> DeleteMany(st, r.fb)
      [] OTHER -> st

\* A date that is null.
NoDate == -1

MaxOf(S) == CHOOSE m \in S : \A x \in S : x <= m
MinOf(S) == CHOOSE m \in S : \A x \in S : m <= x

\* The ids that $group makes groups of: the flipbookId of every document.
FlipbookIds(st) == {k[1] : k \in DOMAIN st}

\* LastUpdated taking the earliest updatedAt of the group.
OldestUpdate(st, fb) == MinOf({st[k].updatedAt : k \in KeysOf(st, fb)})

\* {$max: '$updatedAt'} and {$min: '$createdAt'} over the group of fb.
LastUpdated(st, fb) == MaxOf({st[k].updatedAt : k \in KeysOf(st, fb)})
FirstCreated(st, fb) == MinOf({st[k].createdAt : k \in KeysOf(st, fb)})

\* One group of the aggregation, after $project.
Summary(st, fb) ==
    [flipbookId |-> fb, frameCount |-> Cardinality(KeysOf(st, fb)),
     lastUpdated |-> LastUpdated(st, fb), createdAt |-> FirstCreated(st, fb)]

\* The info object built from Drawing.find({flipbookId}).
Info(st, fb) ==
    LET drawings == KeysOf(st, fb)
    IN  [flipbookId |-> fb,
         frameCount |-> Cardinality(drawings),
         lastUpdated |-> IF drawings # {}
                         THEN MaxOf({st[k].updatedAt : k \in drawings}) ELSE NoDate,
         createdAt |-> IF drawings # {}
                       THEN MinOf({st[k].createdAt : k \in drawings}) ELSE NoDate,
         creators |-> {st[k].by : k \in drawings} \ {NoBy}]

\* The orders in which the members of S can be listed.
Orders(S) ==
    {o \in [1..Cardinality(S) -> S] : \A i, j \in 1..Cardinality(S) : i # j => o[i] # o[j]}

\* {$sort: {lastUpdated: -1}}: the summaries by lastUpdated descending;
\* the order of summaries with equal lastUpdated is not determined.
Sorted(L) == \A i, j \in DOMAIN L : i < j => L[i].lastUpdated >= L[j].lastUpdated
Aggregations(st) ==
    {L \in {[i \in DOMAIN o |-> Summary(st, o[i])] : o \in Orders(FlipbookIds(st))} :
        Sorted(L)}

\* What the call of request r returns to its handler.
Result(st, r) ==
    LET k == <<r.fb, r.idx>>
    IN  CASE r.kind = "join" -> [NoRes EXCEPT !.frames = ListFrames(st, r.fb)]
          [] r.kind \in {"update", "rest-save"} ->
                [NoRes EXCEPT !.found = TRUE, !.by = Applied(st, r)[k].by,
                              !.at = Applied(st, r)[k].updatedAt]
          [] r.kind = "delete-flipbook" ->
                [NoRes EXCEPT !.count = Cardinality(KeysOf(st, r.fb))]
          [] r.kind = "rename" ->
                [NoRes EXCEPT !.found = (KeysOf(st, Trim(r.newId)) # {})]
          [] r.kind = "rest-get" ->
                [NoRes EXCEPT !.found = (k \in DOMAIN st),
                              !.data = IF k \in DOMAIN st THEN st[k].data ELSE NoData]
          [] r.kind = "info" -> [NoRes EXCEPT !.summaries = <<Info(st, r.fb)>>]
          [] OTHER -> [NoRes EXCEPT !.found = (k \in DOMAIN st)]

\* StoreExec over a single connection that answers the calls one at a time,
\* in the order they were issued: a call waits for every earlier one.
StoreExecInOrder(p) ==
    /\ p \in pending
    /\ p.phase = "sent"
    /\ \A q \in pending : q.phase = "sent" => p.id <= q.id
    /\ store' = Applied(store, reqs[p.id])
    /\ pending' = (pending \ {p}) \cup
                    {[p EXCEPT !.phase = "ok", !.res = Result(store, reqs[p.id])]}
    /\ UNCHANGED <<rooms, connected, reqs, done, log, http, client>>

\* The store executes a call in flight.
StoreExec(p) ==
    /\ p \in pending
    /\ p.phase = "sent"
    /\ store' = Applied(store, reqs[p.id])
    /\ pending' = (pending \ {p}) \cup
                    {[p EXCEPT !.phase = "ok", !.res = Result(store, reqs[p.id])]}
    /\ UNCHANGED <<rooms, connected, reqs, done, log, http, client>>

\* A handler whose store call has returned.
Returned(p, kind) ==
    /\ p \in pending
    /\ p.phase = "ok"
    /\ reqs[p.id].kind = kind

\* A handler whose store call is rejected: the call has not changed the
\* store, and the handler goes on in its catch block.
Rejected(p, kind) ==
    /\ p \in pending
    /\ p.phase = "sent"
    /\ reqs[p.id].kind = kind

\* The handler of call p finishes.
Finish(p, ok) ==
    /\ pending' = pending \ {p}
    /\ done' = done \cup {Outcome(p.id, ok, Members(reqs[p.id].fb))}

\* join-flipbook after the await: the snapshot to the joining socket.
JoinFlipbookResume(p) ==
    /\ Returned(p, "join")
    /\ LET r == reqs[p.id]
       IN  log' = Unicast(r.conn, [Event("flipbook-state", p.id) EXCEPT
                                       !.fb = r.fb, !.frames = p.res.frames])
    /\ Finish(p, TRUE)
    /\ UNCHANGED <<store, rooms, connected, reqs, http, client>>

\* join-flipbook, catch block: console.error only.
JoinFlipbookCatch(p) ==
    /\ Rejected(p, "join")
    /\ Finish(p, FALSE)
    /\ UNCHANGED <<store, rooms, connected, reqs, log, http, client>>

\* DrawingUpdateResume without the await: the events are sent when the
\* upsert has been issued, not when it has returned.
DrawingUpdateAckEarly(p) ==
    /\ Rejected(p, "update")
    /\ LET r == reqs[p.id]
           upd == [Event("drawing-updated", p.id) EXCEPT
                       !.fb = r.fb, !.idx = r.idx, !.data = r.data]
           saved == [Event("drawing-saved", p.id) EXCEPT !.fb = r.fb, !.idx = r.idx]
       IN  log' = ToOthersThenSelf(r.conn, r.fb, upd, saved)
    /\ Finish(p, TRUE)
    /\ UNCHANGED <<store, rooms, connected, reqs, http, client>>

\* drawing-update after the await: the room without the sender, then the
\* sender.
DrawingUpdateResume(p) ==
    /\ Returned(p, "update")
    /\ LET r == reqs[p.id]
           upd == [Event("drawing-updated", p.id) EXCEPT
                       !.fb = r.fb, !.idx = r.idx, !.data = r.data,
                       !.by = p.res.by, !.at = p.res.at]
           saved == [Event("drawing-saved", p.id) EXCEPT !.fb = r.fb, !.idx = r.idx]
       IN  log' = ToOthersThenSelf(r.conn, r.fb, upd, saved)
    /\ Finish(p, TRUE)
    /\ UNCHANGED <<store, rooms, connected, reqs, http, client>>

\* DrawingUpdateCatch with the broadcast placed before the await: the room
\* is sent drawing-updated although the upsert was rejected.
DrawingUpdateCatchAfterBroadcast(p) ==
    /\ Rejected(p, "update")
    /\ LET r == reqs[p.id]
           upd == [Event("drawing-updated", p.id) EXCEPT
                       !.fb = r.fb, !.idx = r.idx, !.data = r.data]
       IN  log' = ToOthersThenSelf(r.conn, r.fb, upd, Event("drawing-error", p.id))
    /\ Finish(p, FALSE)
    /\ UNCHANGED <<store, rooms, connected, reqs, http, client>>

\* drawing-update, catch block.
DrawingUpdateCatch(p) ==
    /\ Rejected(p, "update")
    /\ log' = Unicast(reqs[p.id].conn, Event("drawing-error", p.id))
    /\ Finish(p, FALSE)
    /\ UNCHANGED <<store, rooms, connected, reqs, http, client>>

\* frame-delete after the await: the whole room.
FrameDeleteResume(p) ==
    /\ Returned(p, "delete")
    /\ LET r == reqs[p.id]
       IN  log' = ToRoom(r.fb, [Event("frame-deleted", p.id) EXCEPT
                                   !.fb = r.fb, !.idx = r.idx])
    /\ Finish(p, TRUE)
    /\ UNCHANGED <<store, rooms, connected, reqs, http, client>>

\* frame-delete, catch block.
FrameDeleteCatch(p) ==
    /\ Rejected(p, "delete")
    /\ log' = Unicast(reqs[p.id].conn, Event("drawing-error", p.id))
    /\ Finish(p, FALSE)
    /\ UNCHANGED <<store, rooms, connected, reqs, http, client>>

\* GetStatus without the test of the document: res.json(null).
GetStatusUnchecked(found) == 200

\* The status of the single-frame GET: 404 when findOne returned null.
GetStatus(found) == IF found THEN 200 ELSE 404

\* The status a REST frame route answers with once its store call returned.
RouteStatus(kind, res) == IF kind = "rest-get" THEN GetStatus(res.found) ELSE 200

\* An HTTP response: the status and, in the body of a flipbook delete or
\* rename, deletedCount or updatedCount; body is the list of summaries the
\* summary routes answer with, empty for every other route.
Report(id, status, count) ==
    [op |-> id, status |-> status, count |-> count, body |-> << >>]
Response(id, status) == Report(id, status, 0)

\* The requests of the REST frame routes.
FrameRoutes == {"rest-get", "rest-save", "rest-delete"}

\* A REST frame route after the await: res.json(...), or 404 for the GET.
RouteResume(p) ==
    /\ p \in pending
    /\ p.phase = "ok"
    /\ reqs[p.id].kind \in FrameRoutes
    /\ http' = Append(http, Response(p.id, RouteStatus(reqs[p.id].kind, p.res)))
    /\ Finish(p, TRUE)
    /\ UNCHANGED <<store, rooms, connected, reqs, log, client>>

\* A REST frame route, catch block: 500.
RouteCatch(p) ==
    /\ p \in pending
    /\ p.phase = "sent"
    /\ reqs[p.id].kind \in FrameRoutes
    /\ http' = Append(http, Response(p.id, 500))
    /\ Finish(p, FALSE)
    /\ UNCHANGED <<store, rooms, connected, reqs, log, client>>

\* app.delete('/api/flipbook/:flipbookId'), up to the await.
RestDeleteFlipbook(fb) ==
    /\ Len(reqs) < MaxOps
    /\ reqs' = Append(reqs, Request("delete-flipbook", NoConn,
                                    Payload(fb, NoIdx, NoData, NoBy)))
    /\ pending' = pending \cup {Call(Now)}
    /\ UNCHANGED <<store, rooms, connected, done, log, http, client>>

\* The flipbook delete after the await: flipbook-deleted to the room, then
\* the answer with deletedCount.
DeleteFlipbookResume(p) ==
    /\ Returned(p, "delete-flipbook")
    /\ LET r == reqs[p.id]
       IN  log' = ToRoom(r.fb, [Event("flipbook-deleted", p.id) EXCEPT !.fb = r.fb])
    /\ http' = Append(http, Report(p.id, 200, p.res.count))
    /\ Finish(p, TRUE)
    /\ UNCHANGED <<store, rooms, connected, reqs, client>>

\* The flipbook delete, catch block: 500.
DeleteFlipbookCatch(p) ==
    /\ Rejected(p, "delete-flipbook")
    /\ http' = Append(http, Response(p.id, 500))
    /\ Finish(p, FALSE)
    /\ UNCHANGED <<store, rooms, connected, reqs, log, client>>

\* app.put('/api/flipbook/:flipbookId/rename'), up to the first await: 400
\* when newFlipbookId is missing, empty or blank, else findOne is issued
\* for the trimmed id.
RestRename(old, raw) ==
    /\ Len(reqs) < MaxOps
    /\ reqs' = Append(reqs, Request("rename", NoConn, RenameBody(old, raw)))
    /\ IF raw = NoId \/ Trim(raw) = ""
       THEN /\ http' = Append(http, Response(Now, 400))
            /\ done' = done \cup {Outcome(Now, FALSE, Members(old))}
            /\ pending' = pending
       ELSE /\ pending' = pending \cup {Call(Now)}
            /\ UNCHANGED <<done, http>>
    /\ UNCHANGED <<store, rooms, connected, log, client>>

\* RenameConflict with the broadcast placed before the test of findOne's
\* result: the room is sent flipbook-renamed for a rename that is refused.
RenameConflictBroadcast(p) ==
    /\ Returned(p, "rename")
    /\ p.res.found
    /\ LET r == reqs[p.id]
       IN  log' = ToRoom(r.fb, [Event("flipbook-renamed", p.id) EXCEPT
                                   !.fb = r.fb, !.newId = Trim(r.newId)])
    /\ http' = Append(http, Response(p.id, 400))
    /\ Finish(p, FALSE)
    /\ UNCHANGED <<store, rooms, connected, reqs, client>>

\* The rename after findOne, a document of the new id exists: 400.
RenameConflict(p) ==
    /\ Returned(p, "rename")
    /\ p.res.found
    /\ http' = Append(http, Response(p.id, 400))
    /\ Finish(p, FALSE)
    /\ UNCHANGED <<store, rooms, connected, reqs, log, client>>

\* The rename after findOne, no document of the new id: updateMany is
\* issued.
RenameProceed(p) ==
    /\ Returned(p, "rename")
    /\ ~p.res.found
    /\ pending' = (pending \ {p}) \cup {[p EXCEPT !.phase = "rewrite"]}
    /\ UNCHANGED <<store, rooms, connected, reqs, done, log, http, client>>

\* StoreRewrite without the unique index: every document of the old id
\* takes the new id, also one whose frameIndex the new id already holds.
StoreRewriteUnchecked(p) ==
    /\ p \in pending
    /\ p.phase = "rewrite"
    /\ LET r == reqs[p.id]
           new == Trim(r.newId)
       IN  /\ store' = SetFlipbookId(store, KeysOf(store, r.fb), new)
           /\ pending' = (pending \ {p}) \cup
                 {[p EXCEPT !.phase = "rewritten",
                            !.res.at = Now,
                            !.res.count = Cardinality(KeysOf(store, r.fb))]}
    /\ UNCHANGED <<rooms, connected, reqs, done, log, http, client>>

\* The store executes updateMany: every document of the old id takes the
\* new id.  The result keeps the time of the rewrite (at) and
\* modifiedCount (count).
StoreRewrite(p) ==
    /\ p \in pending
    /\ p.phase = "rewrite"
    /\ LET r == reqs[p.id]
           new == Trim(r.newId)
       IN  /\ Collide(store, r.fb, new) = {}
           /\ store' = SetFlipbookId(store, KeysOf(store, r.fb), new)
           /\ pending' = (pending \ {p}) \cup
                 {[p EXCEPT !.phase = "rewritten",
                            !.res.at = Now,
                            !.res.count = IF r.fb = new THEN 0
                                          ELSE Cardinality(KeysOf(store, r.fb))]}
    /\ UNCHANGED <<rooms, connected, reqs, done, log, http, client>>

\* The store executes updateMany and the unique index refuses a document:
\* the new id has come to hold its frameIndex since findOne.  The
\* documents rewritten before that one keep the new id, the call is
\* rejected, and the catch block answers 500.
StoreRewriteDuplicate(p) ==
    /\ p \in pending
    /\ p.phase = "rewrite"
    /\ LET r == reqs[p.id]
           new == Trim(r.newId)
       IN  /\ Collide(store, r.fb, new) # {}
           /\ \E moved \in SUBSET (KeysOf(store, r.fb) \ Collide(store, r.fb, new)) :
                 store' = SetFlipbookId(store, moved, new)
    /\ http' = Append(http, Response(p.id, 500))
    /\ Finish(p, FALSE)
    /\ UNCHANGED <<rooms, connected, reqs, log, client>>

\* RenameResume with the emit addressed to the room of the new id.
RenameResumeToNewRoom(p) ==
    /\ p \in pending
    /\ p.phase = "rewritten"
    /\ LET r == reqs[p.id]
       IN  log' = ToRoom(Trim(r.newId), [Event("flipbook-renamed", p.id) EXCEPT
                                            !.fb = r.fb, !.newId = Trim(r.newId)])
    /\ http' = Append(http, Report(p.id, 200, p.res.count))
    /\ Finish(p, TRUE)
    /\ UNCHANGED <<store, rooms, connected, reqs, client>>

\* The rename after updateMany: flipbook-renamed to the room of the old id,
\* then the answer with updatedCount.
RenameResume(p) ==
    /\ p \in pending
    /\ p.phase = "rewritten"
    /\ LET r == reqs[p.id]
       IN  log' = ToRoom(r.fb, [Event("flipbook-renamed", p.id) EXCEPT
                                   !.fb = r.fb, !.newId = Trim(r.newId)])
    /\ http' = Append(http, Report(p.id, 200, p.res.count))
    /\ Finish(p, TRUE)
    /\ UNCHANGED <<store, rooms, connected, reqs, client>>

\* The rename, catch block, findOne or updateMany rejected: 500.
RenameCatch(p) ==
    /\ p \in pending
    /\ p.phase \in {"sent", "rewrite"}
    /\ reqs[p.id].kind = "rename"
    /\ http' = Append(http, Response(p.id, 500))
    /\ Finish(p, FALSE)
    /\ UNCHANGED <<store, rooms, connected, reqs, log, client>>

\* ToOthers with io.to in place of socket.to: the sender is not left out.
ToWholeRoom(c, fb, ev) == ToRoom(fb, ev)

\* socket.to(fb).emit(ev): to every socket in the room but the sender.
ToOthers(c, fb, ev) ==
    [x \in Conns |-> IF x \in Members(fb) /\ x # c THEN Deliver(x, ev) ELSE log[x]]

\* socket.on('cursor-move'): no store call, cursor-updated to the others in
\* the room.
CursorMove(c, p) ==
    /\ CanSend(c)
    /\ reqs' = Append(reqs, Request("cursor", c, p))
    /\ log' = ToOthers(c, p.fb, [Event("cursor-updated", Now) EXCEPT
                                    !.socketId = c, !.userId = p.by,
                                    !.x = p.x, !.y = p.y])
    /\ done' = done \cup {Outcome(Now, TRUE, Members(p.fb))}
    /\ UNCHANGED <<store, rooms, connected, pending, http, client>>

\* Disconnect that leaves the socket in its rooms.
DisconnectKeepingRooms(c) ==
    /\ connected[c] = "open"
    /\ connected' = [connected EXCEPT ![c] = "closed"]
    /\ UNCHANGED <<store, rooms, reqs, pending, done, log, http, client>>

\* The socket closes: socket.io takes it out of every room, then runs the
\* 'disconnect' handler, which only logs.  Its handlers that await a store
\* call are resumed all the same.
Disconnect(c) ==
    /\ connected[c] = "open"
    /\ connected' = [connected EXCEPT ![c] = "closed"]
    /\ rooms' = [rooms EXCEPT ![c] = {}]
    /\ UNCHANGED <<store, reqs, pending, done, log, http, client>>

\* The WebSocket protocol.
Next ==
    \/ \E c \in Conns, fb \in Ids : JoinFlipbook(c, fb)
    \/ \E c \in Conns, fb \in Flipbooks : LeaveFlipbook(c, fb)
    \/ \E c \in Conns, p \in UpdatePayloads : DrawingUpdate(c, p)
    \/ \E c \in Conns, p \in DeletePayloads : FrameDelete(c, p)
    \/ \E p \in pending : StoreExec(p)
    \/ \E p \in pending : JoinFlipbookResume(p)
    \/ \E p \in pending : JoinFlipbookCatch(p)
    \/ \E p \in pending : DrawingUpdateResume(p)
    \/ \E p \in pending : DrawingUpdateCatch(p)
    \/ \E p \in pending : FrameDeleteResume(p)
    \/ \E p \in pending : FrameDeleteCatch(p)
    \/ \E c \in Closers : Disconnect(c)

Spec == Init /\ [][Next]_vars

\* The REST frame routes, beside frame-delete and drawing-update on "cat".
NextRest ==
    \/ \E s \in PathIdx : RestGetFrame("cat", s)
    \/ \E s \in PathIdx : RestDeleteFrame("cat", s)
    \/ \E s \in PathIdx : RestSaveFrame("cat", s, "Y", NoBy)
    \/ \E c \in Conns : FrameDelete(c, Payload("cat", 1, NoData, NoBy))
    \/ \E p \in pending : StoreExec(p)
    \/ \E p \in pending : RouteResume(p)
    \/ \E p \in pending : RouteCatch(p)
    \/ \E p \in pending : FrameDeleteResume(p)
    \/ \E p \in pending : FrameDeleteCatch(p)

SpecRest == Init /\ [][NextRest]_vars

\* The renames drawn: "cat" to the unused "dog", with and without blanks
\* around it, to a blank and to a missing id, and "dog" to the used "cat".
Renames == { <<"cat", "dog">>, <<"cat", " dog ">>, <<"cat", " ">>, <<"cat", NoId>>,
             <<"dog", "cat">> }
\* The upserts and cursor moves drawn beside them.
BookUpdates ==
    { Payload("cat", 0, "Y", NoBy), Payload("dog", 0, "X", "alice"),
      Payload("dog", 2, "X", NoBy) }
CursorPayloads == { CursorPayload("cat", 1, 2, "alice"), CursorPayload("dog", 2, 1, NoBy) }

\* The flipbook routes (delete and rename), beside upserts and frame
\* deletes over both transports, cursor moves and leaves.
NextBooks ==
    \/ \E rn \in Renames : RestRename(rn[1], rn[2])
    \/ \E fb \in Flipbooks : RestDeleteFlipbook(fb)
    \/ \E c \in Conns, p \in BookUpdates : DrawingUpdate(c, p)
    \/ RestSaveFrame("cat", "0", "X", NoBy)
    \/ \E c \in Conns : FrameDelete(c, Payload("cat", 0, NoData, NoBy))
    \/ \E c \in Conns, p \in CursorPayloads : CursorMove(c, p)
    \/ \E c \in Conns : LeaveFlipbook(c, "cat")
    \/ \E p \in pending : StoreExec(p)
    \/ \E p \in pending : StoreRewrite(p)
    \/ \E p \in pending : StoreRewriteDuplicate(p)
    \/ \E p \in pending : RenameConflict(p)
    \/ \E p \in pending : RenameProceed(p)
    \/ \E p \in pending : RenameResume(p)
    \/ \E p \in pending : RenameCatch(p)
    \/ \E p \in pending : DeleteFlipbookResume(p)
    \/ \E p \in pending : DeleteFlipbookCatch(p)
    \/ \E p \in pending : DrawingUpdateResume(p)
    \/ \E p \in pending : DrawingUpdateCatch(p)
    \/ \E p \in pending : FrameDeleteResume(p)
    \/ \E p \in pending : FrameDeleteCatch(p)
    \/ \E p \in pending : RouteResume(p)
    \/ \E p \in pending : RouteCatch(p)

SpecBooks == Init /\ [][NextBooks]_vars

\* A running server with two rooms in use: "dog" has one frame, saved
\* earlier, and B has joined "dog" as well as "cat"; its page went from
\* "cat" to "dog".
InitTwoRooms ==
    /\ store = InitStore @@ (<<"dog", 0>> :> Old("Z"))
    /\ rooms = [c \in Conns |-> IF c = "B" THEN {"cat", "dog"} ELSE {"cat"}]
    /\ connected = [c \in Conns |-> "open"]
    /\ reqs = << >>
    /\ pending = {}
    /\ done = {}
    /\ log = [c \in Conns |-> << >>]
    /\ http = << >>
    /\ client = [c \in Conns |->
                    LET fb == IF c = "B" THEN "dog" ELSE "cat"
                    IN  Page(fb, BuildFrames(ListFrames(store, fb), fb))]

\* The mutations and reads drawn on the two flipbooks.
RoomUpdates == { Payload("cat", 0, "Y", NoBy), Payload("dog", 0, "X", NoBy) }

\* Drawing updates and frame deletes on two flipbooks, and the single-frame
\* GET.
NextTwoRooms ==
    \/ \E c \in Conns, p \in RoomUpdates : DrawingUpdate(c, p)
    \/ \E c \in Conns : FrameDelete(c, Payload("dog", 0, NoData, NoBy))
    \/ \E fb \in Flipbooks : RestGetFrame(fb, "0")
    \/ \E p \in pending : StoreExec(p)
    \/ \E p \in pending : DrawingUpdateResume(p)
    \/ \E p \in pending : DrawingUpdateCatch(p)
    \/ \E p \in pending : FrameDeleteResume(p)
    \/ \E p \in pending : FrameDeleteCatch(p)
    \/ \E p \in pending : RouteResume(p)
    \/ \E p \in pending : RouteCatch(p)

SpecTwoRooms == InitTwoRooms /\ [][NextTwoRooms]_vars

\* The flipbook whose store calls may never be answered, and another one.
Stalled == "cat"
Served == "dog"

\* Mutations over the sockets on the two flipbooks; the store does not
\* reject a call.
NextStall ==
    \/ \E c \in Conns, p \in RoomUpdates : DrawingUpdate(c, p)
    \/ \E c \in Conns : FrameDelete(c, Payload(Served, 0, NoData, NoBy))
    \/ \E p \in pending : StoreExec(p)
    \/ \E p \in pending : DrawingUpdateResume(p)
    \/ \E p \in pending : FrameDeleteResume(p)

\* A step of the store or of the event loop for a call on flipbook fb.
StepOn(fb) ==
    \E p \in pending :
        /\ reqs[p.id].fb = fb
        /\ (StoreExec(p) \/ DrawingUpdateResume(p) \/ FrameDeleteResume(p))

\* The store answers the calls on Served and node's event loop runs every
\* continuation that is ready; nothing is assumed of the calls on Stalled,
\* which may stay unanswered for ever.
SpecStall == InitTwoRooms /\ [][NextStall]_vars /\ WF_vars(StepOn(Served))

----------------------------------------------------------------------------
\* The summary routes.

SummaryRoutes == {"list", "info"}

\* app.get('/api/flipbooks'), up to the await: the aggregation is issued.
RestListFlipbooks ==
    /\ Len(reqs) < MaxOps
    /\ reqs' = Append(reqs, Request("list", NoConn, Payload(NoId, NoIdx, NoData, NoBy)))
    /\ pending' = pending \cup {[Call(Now) EXCEPT !.phase = "aggregate"]}
    /\ UNCHANGED <<store, rooms, connected, done, log, http, client>>

\* app.get('/api/flipbook/:flipbookId/info'), up to the await: find is
\* issued.
RestFlipbookInfo(fb) ==
    /\ Len(reqs) < MaxOps
    /\ reqs' = Append(reqs, Request("info", NoConn, Payload(fb, NoIdx, NoData, NoBy)))
    /\ pending' = pending \cup {Call(Now)}
    /\ UNCHANGED <<store, rooms, connected, done, log, http, client>>

\* The store executes the aggregation.
StoreAggregate(p) ==
    /\ p \in pending
    /\ p.phase = "aggregate"
    /\ \E L \in Aggregations(store) :
           pending' = (pending \ {p}) \cup
                        {[p EXCEPT !.phase = "ok", !.res = [NoRes EXCEPT !.summaries = L]]}
    /\ UNCHANGED <<store, rooms, connected, reqs, done, log, http, client>>

\* A summary route after the await: res.json(flipbooks), res.json(info).
SummaryResume(p) ==
    /\ p \in pending
    /\ p.phase = "ok"
    /\ reqs[p.id].kind \in SummaryRoutes
    /\ http' = Append(http, [Report(p.id, 200, 0) EXCEPT !.body = p.res.summaries])
    /\ Finish(p, TRUE)
    /\ UNCHANGED <<store, rooms, connected, reqs, log, client>>

\* A summary route, catch block: 500.
SummaryCatch(p) ==
    /\ p \in pending
    /\ p.phase \in {"sent", "aggregate"}
    /\ reqs[p.id].kind \in SummaryRoutes
    /\ http' = Append(http, Response(p.id, 500))
    /\ Finish(p, FALSE)
    /\ UNCHANGED <<store, rooms, connected, reqs, log, client>>

\* The summary routes beside drawing updates and frame deletes on the two
\* flipbooks.
NextSummaries ==
    \/ RestListFlipbooks
    \/ \E fb \in Flipbooks : RestFlipbookInfo(fb)
    \/ \E c \in Conns, p \in RoomUpdates : DrawingUpdate(c, p)
    \/ \E c \in Conns : FrameDelete(c, Payload("dog", 0, NoData, NoBy))
    \/ \E p \in pending : StoreExec(p)
    \/ \E p \in pending : StoreAggregate(p)
    \/ \E p \in pending : SummaryResume(p)
    \/ \E p \in pending : SummaryCatch(p)
    \/ \E p \in pending : DrawingUpdateResume(p)
    \/ \E p \in pending : DrawingUpdateCatch(p)
    \/ \E p \in pending : FrameDeleteResume(p)
    \/ \E p \in pending : FrameDeleteCatch(p)

SpecSummaries == InitTwoRooms /\ [][NextSummaries]_vars

----------------------------------------------------------------------------
\* Reading the logs.

\* The events socket c was sent on behalf of request id, in order.
EventsOf(c, id) == SelectSeq(log[c], LAMBDA e : e.op = id)

\* The event without the fields the claims do not speak of.
Shape(e) == [type |-> e.type, fb |-> e.fb, idx |-> e.idx, data |-> e.data]
Shapes(es) == [i \in DOMAIN es |-> Shape(es[i])]

\* The broadcast of a mutation of a flipbook.
IsMutationEvent(e) == e.type \in {"drawing-updated", "frame-deleted"}

\* A drawing-update or frame-delete request.
IsMutation(r) == r.kind \in {"update", "delete"}

\* The handler of call p has finished in this step.
Gone(p) == \A q \in pending' : q.id # p.id

\* The store has executed call p in this step.
Executes(p) == p.phase = "sent" /\ \E q \in pending' : q.id = p.id /\ q.phase = "ok"

\* The request received in this step, if one was.
Received == Len(reqs') = Len(reqs) + 1
Newest == reqs'[Len(reqs')]

----------------------------------------------------------------------------
\* C1: every socket that is sent the broadcasts of two mutations of one
\* flipbook is sent them in the order in which the server received the
\* two mutations.
C1_BroadcastsInSubmissionOrder ==
    \A c \in Conns : \A i, j \in DOMAIN log[c] :
        (/\ i < j
         /\ IsMutationEvent(log[c][i])
         /\ IsMutationEvent(log[c][j])
         /\ log[c][i].fb = log[c][j].fb)
            => log[c][i].op < log[c][j].op

RECURSIVE InSubmissionOrder(_)
\* The collection after the first n requests, applied one at a time in the
\* order received, those whose store call was rejected left out.
InSubmissionOrder(n) ==
    IF n = 0 THEN InitStore
    ELSE IF \E d \in done : d.id = n /\ d.ok
         THEN Applied(InSubmissionOrder(n - 1), reqs[n])
         ELSE InSubmissionOrder(n - 1)

\* C2: no two mutations of one flipbook are in progress at once (between
\* the issue of the store call and the broadcast), and once no mutation is
\* in progress the collection is what the mutations give applied one at a
\* time in the order received.
C2_SerializedPerFlipbook ==
    /\ \A p, q \in pending :
          (/\ p.id # q.id
           /\ IsMutation(reqs[p.id])
           /\ IsMutation(reqs[q.id]))
              => reqs[p.id].fb # reqs[q.id].fb
    /\ pending = {} => store = InSubmissionOrder(Len(reqs))

\* C3: for a drawing-update of socket A that the store has saved, every
\* socket in the flipbook's room other than A is sent exactly
\* drawing-updated with the update's flipbookId, frameIndex and
\* drawingData, A is sent exactly one drawing-saved for that frame and no
\* drawing-updated, and a socket outside the room is sent nothing.
C3_UpdateFanOut ==
    \A d \in done :
        LET r == reqs[d.id]
        IN  (r.kind = "update" /\ d.ok) =>
                \A c \in Conns :
                    Shapes(EventsOf(c, d.id)) =
                        IF c = r.conn
                        THEN <<[type |-> "drawing-saved", fb |-> r.fb, idx |-> r.idx,
                                data |-> NoData]>>
                        ELSE IF c \in d.room
                        THEN <<[type |-> "drawing-updated", fb |-> r.fb, idx |-> r.idx,
                                data |-> r.data]>>
                        ELSE << >>

\* A saved drawing-update of A on "cat" while A and B are both in the room.
C3_Witness ==
    \E d \in done :
        /\ d.ok
        /\ reqs[d.id].kind = "update"
        /\ reqs[d.id].conn = "A"
        /\ reqs[d.id].fb = "cat"
        /\ d.room = {"A", "B"}

\* C4: when the store rejects the upsert of a drawing-update, the handler
\* sends drawing-error to the sender and nothing to anyone else, and the
\* collection is as it was.
C4_UpdateFailure ==
    [][\A p \in pending :
          (reqs[p.id].kind = "update" /\ p.phase = "sent" /\ Gone(p)) =>
              /\ store' = store
              /\ \A c \in Conns :
                    IF c = reqs[p.id].conn
                    THEN /\ Len(log'[c]) = Len(log[c]) + 1
                         /\ SubSeq(log'[c], 1, Len(log[c])) = log[c]
                         /\ log'[c][Len(log'[c])].type = "drawing-error"
                         /\ log'[c][Len(log'[c])].op = p.id
                    ELSE log'[c] = log[c]]_vars

\* A rejected drawing-update of A on "cat" while B is in the room.
C4_Witness ==
    \E d \in done :
        /\ ~d.ok
        /\ reqs[d.id].kind = "update"
        /\ reqs[d.id].conn = "A"
        /\ reqs[d.id].fb = "cat"
        /\ "B" \in d.room
        /\ Shapes(EventsOf("A", d.id)) =
              <<[type |-> "drawing-error", fb |-> NoId, idx |-> NoIdx, data |-> NoData]>>

\* A request that lacks a required field.
Invalid(r) ==
    \/ r.kind \in {"update", "delete"} /\ (r.fb = NoId \/ r.idx = NoIdx)
    \/ r.kind = "join" /\ r.fb = NoId

\* C5: a drawing-update or frame-delete without flipbookId or frameIndex,
\* and a join-flipbook with an empty id, issues no store call, and the
\* sender, and nobody else, is sent a drawing-error for it.
C5_ValidationShortCircuits ==
    \A i \in DOMAIN reqs :
        Invalid(reqs[i]) =>
            /\ \A p \in pending : p.id # i
            /\ \A c \in Conns :
                  Shapes(EventsOf(c, i)) =
                      IF c = reqs[i].conn
                      THEN <<[type |-> "drawing-error", fb |-> NoId, idx |-> NoIdx,
                              data |-> NoData]>>
                      ELSE << >>

\* C6: join-flipbook(F) of socket C puts C in room F and changes no other
\* membership; the find it issues returns exactly the documents the
\* collection holds for F, none of another flipbook, by ascending
\* frameIndex; and the handler sends that list as flipbook-state to C and
\* nothing to any other socket.
C6_JoinSnapshot ==
    [][/\ (Received /\ Newest.kind = "join") =>
            /\ rooms' = [rooms EXCEPT ![Newest.conn] = @ \cup {Newest.fb}]
            /\ log' = log
       /\ \A p \in pending : reqs[p.id].kind = "join" =>
            LET r == reqs[p.id]
            IN  /\ Executes(p) =>
                    \E q \in pending' :
                        /\ q.id = p.id
                        /\ {<<f.fb, f.idx>> : f \in {q.res.frames[i] : i \in DOMAIN q.res.frames}}
                              = {k \in DOMAIN store : k[1] = r.fb}
                        /\ \A i \in DOMAIN q.res.frames :
                              /\ q.res.frames[i].data = store[<<r.fb, q.res.frames[i].idx>>].data
                              /\ \A j \in DOMAIN q.res.frames :
                                    i < j => q.res.frames[i].idx < q.res.frames[j].idx
                /\ (p.phase = "ok" /\ Gone(p)) =>
                    \A c \in Conns :
                        IF c = r.conn
                        THEN /\ Len(log'[c]) = Len(log[c]) + 1
                             /\ SubSeq(log'[c], 1, Len(log[c])) = log[c]
                             /\ log'[c][Len(log'[c])].type = "flipbook-state"
                             /\ log'[c][Len(log'[c])].frames = p.res.frames
                        ELSE log'[c] = log[c]]_vars

\* A socket has been sent the state of "cat", both frames, while the
\* collection also holds a frame of "dog".
C6_Witness ==
    \E c \in Conns : \E i \in DOMAIN log[c] :
        /\ log[c][i].type = "flipbook-state"
        /\ log[c][i].fb = "cat"
        /\ Len(log[c][i].frames) = 2
        /\ <<"dog", 0>> \in DOMAIN store

\* C7: join-flipbook(F) of a socket that is in room F leaves every
\* membership as it is; leave-flipbook(F) takes the socket out of room F
\* and nothing else, leaves every membership as it is when the socket is
\* not in F, issues no store call, changes no document and sends nothing.
C7_MembershipIdempotent ==
    [][Received =>
          /\ (Newest.kind = "join" /\ Newest.fb \in rooms[Newest.conn]) => rooms' = rooms
          /\ Newest.kind = "leave" =>
                /\ rooms' = [rooms EXCEPT ![Newest.conn] = @ \ {Newest.fb}]
                /\ Newest.fb \notin rooms[Newest.conn] => rooms' = rooms
                /\ UNCHANGED <<store, pending, done, log, http>>]_vars

\* A socket in "cat" has joined "cat" again and has left "dog", which it
\* was not in, and its membership is what it was.
C7_Witness ==
    /\ Len(reqs) = 2
    /\ reqs[1].kind = "join" /\ reqs[1].fb = "cat" /\ reqs[1].conn = "A"
    /\ reqs[2].kind = "leave" /\ reqs[2].fb = "dog" /\ reqs[2].conn = "A"
    /\ rooms = InitRooms

\* An event that is sent to a room.
IsBroadcast(e) == e.type \in {"drawing-updated", "frame-deleted"}

\* C8: a socket that has closed is in no room, and no broadcast is ever
\* sent to a closed socket, whenever the mutation behind it was issued.
C8_ClosedSocketGetsNoBroadcast ==
    \A c \in Conns :
        /\ connected[c] = "closed" => rooms[c] = {}
        /\ \A i \in DOMAIN log[c] : IsBroadcast(log[c][i]) => log[c][i].rcvd

\* B, in room "cat", sent frame-delete for "cat" and closed before its
\* store call returned: the broadcast went to A and not to B.
C8_Witness ==
    \E d \in done :
        /\ d.ok
        /\ reqs[d.id].kind = "delete"
        /\ reqs[d.id].conn = "B"
        /\ reqs[d.id].fb = "cat"
        /\ \A i \in DOMAIN reqs : reqs[i].kind # "leave"
        /\ connected["B"] = "closed"
        /\ EventsOf("B", d.id) = << >>
        /\ Len(EventsOf("A", d.id)) = 1

\* C9: the store call of frame-delete(F, k) leaves no document (F, k) in
\* the collection, and the handler then sends frame-deleted with F and k
\* to every socket in room F, the sender included, and to no other socket.
C9_FrameDeleteFanOut ==
    [][\A p \in pending : reqs[p.id].kind = "delete" =>
          LET r == reqs[p.id]
          IN  /\ Executes(p) => <<r.fb, r.idx>> \notin DOMAIN store'
              /\ (p.phase = "ok" /\ Gone(p)) =>
                    \A c \in Conns :
                        IF r.fb \in rooms[c]
                        THEN /\ Len(log'[c]) = Len(log[c]) + 1
                             /\ SubSeq(log'[c], 1, Len(log[c])) = log[c]
                             /\ Shape(log'[c][Len(log'[c])]) =
                                   [type |-> "frame-deleted", fb |-> r.fb, idx |-> r.idx,
                                    data |-> NoData]
                        ELSE log'[c] = log[c]]_vars

\* A, in room "cat" with B, has deleted a frame of "cat": both have been
\* sent frame-deleted and the document is gone.
C9_Witness ==
    \E d \in done :
        /\ d.ok
        /\ reqs[d.id].kind = "delete"
        /\ reqs[d.id].conn = "A"
        /\ d.room = {"A", "B"}
        /\ \A c \in Conns : Len(EventsOf(c, d.id)) = 1
        /\ <<reqs[d.id].fb, reqs[d.id].idx>> \notin DOMAIN store

\* C10: the store call of a frame delete (REST or frame-delete) on a key
\* with no document leaves the collection as it is and returns; the REST
\* delete then answers 200 and frame-delete broadcasts frame-deleted; the
\* single-frame GET changes nothing and answers 404 exactly when the
\* collection held no document for the key, 200 otherwise.
C10_DeleteIdempotentGetNotFound ==
    [][\A p \in pending :
          LET r == reqs[p.id]
              k == <<r.fb, r.idx>>
          IN  /\ (r.kind \in {"delete", "rest-delete"} /\ Executes(p) /\ k \notin DOMAIN store)
                    => store' = store
              /\ (r.kind = "rest-delete" /\ p.phase = "ok" /\ Gone(p))
                    => http' = Append(http, [op |-> p.id, status |-> 200, count |-> 0, body |-> << >>])
              /\ (r.kind = "delete" /\ p.phase = "ok" /\ ~p.res.found /\ Gone(p))
                    => \A c \in Members(r.fb) :
                          /\ Len(log'[c]) = Len(log[c]) + 1
                          /\ log'[c][Len(log'[c])].type = "frame-deleted"
              /\ (r.kind = "rest-get" /\ Executes(p))
                    => /\ store' = store
                       /\ \E q \in pending' : q.id = p.id /\ q.res.found = (k \in DOMAIN store)
              /\ (r.kind = "rest-get" /\ p.phase = "ok" /\ Gone(p))
                    => http' = Append(http, [op |-> p.id,
                                             status |-> IF p.res.found THEN 200 ELSE 404,
                                             count |-> 0, body |-> << >>])]_vars

\* A frame saved before the run was deleted over REST with answer 200, and
\* a GET of the same frame was then answered 404.
C10_Witness ==
    \E i, j \in DOMAIN http :
        /\ i < j
        /\ reqs[http[i].op].kind = "rest-delete"
        /\ http[i].status = 200
        /\ reqs[http[j].op].kind = "rest-get"
        /\ http[j].status = 404
        /\ reqs[http[j].op].idx = reqs[http[i].op].idx
        /\ <<"cat", reqs[http[j].op].idx>> \in DOMAIN InitStore

----------------------------------------------------------------------------
\* A drawing-update or a REST save.
IsUpsert(r) == r.kind \in {"update", "rest-save"}

\* The upserts of key k that the store executes in this step.
UpsertsOf(k) ==
    {p \in pending : Executes(p) /\ IsUpsert(reqs[p.id]) /\ <<reqs[p.id].fb, reqs[p.id].idx>> = k}

\* C11: when the store executes an upsert of a key, whichever transport and
\* connection it came from and whatever was received before or after it,
\* the key has one document, with the drawingData and createdBy of that
\* upsert, and the number of documents grows by one exactly when the key
\* had none; a document that no upsert is executed on in a step keeps its
\* drawingData and createdBy.  So the document is always that of the upsert
\* executed last.
C11_LastWriteWins ==
    [][\A k \in DOMAIN store' :
          IF UpsertsOf(k) # {}
          THEN \A p \in UpsertsOf(k) :
                  LET r == reqs[p.id]
                  IN  /\ store'[k].data = r.data
                      /\ store'[k].by = (IF r.by # NoBy THEN r.by
                                         ELSE IF r.kind = "update" THEN r.conn
                                         ELSE "anonymous")
                      /\ Cardinality(DOMAIN store') =
                            Cardinality(DOMAIN store) + (IF k \in DOMAIN store THEN 0 ELSE 1)
          ELSE k \in DOMAIN store =>
                  /\ store'[k].data = store[k].data
                  /\ store'[k].by = store[k].by]_vars

\* Socket A's drawing-update of cat/0 was received before the REST save of
\* cat/0 and executed after it: the document is A's.
C11_Witness ==
    /\ Len(reqs) = 2
    /\ reqs[1].kind = "update" /\ reqs[1].conn = "A" /\ reqs[1].data = "Y"
    /\ reqs[2].kind = "rest-save" /\ reqs[2].data = "X"
    /\ <<reqs[1].fb, reqs[1].idx>> = <<"cat", 0>>
    /\ <<reqs[2].fb, reqs[2].idx>> = <<"cat", 0>>
    /\ \A i \in {1, 2} : \E d \in done : d.id = i /\ d.ok
    /\ store[<<"cat", 0>>].data = "Y"
    /\ store[<<"cat", 0>>].by = "A"
    /\ store[<<"cat", 0>>].updatedAt = 1

\* The frameIndex values of a listing, in its order.
Indices(frames) == [i \in DOMAIN frames |-> frames[i].idx]

\* The rename calls whose updateMany the store executes, or refuses, in
\* this step.
Rewrites ==
    {p \in pending :
        /\ p.phase = "rewrite"
        /\ Gone(p) \/ \E q \in pending' : q.id = p.id /\ q.phase = "rewritten"}

\* C12: the collection is keyed by (flipbookId, frameIndex), so a write
\* that gave a document the key of another would show as a document lost.
\* No step loses one: an upsert adds a document only for a key that had
\* none, and the rename's updateMany, whether it completes or is refused
\* by the unique index, keeps the number of documents and leaves every
\* document of the new id as it was.  And after every step (upsert, frame
\* delete, flipbook delete, rename) the listing of each flipbook has
\* strictly ascending frameIndex, one entry per document of the flipbook.
C12_UniqueKeysSortedListing ==
    [][/\ \A p \in Rewrites :
             /\ Cardinality(DOMAIN store') = Cardinality(DOMAIN store)
             /\ \A k \in KeysOf(store, Trim(reqs[p.id].newId)) :
                   k \in DOMAIN store' /\ store'[k] = store[k]
       /\ \A p \in pending : (Executes(p) /\ IsUpsert(reqs[p.id])) =>
             Cardinality(DOMAIN store') =
                Cardinality(DOMAIN store) +
                   (IF <<reqs[p.id].fb, reqs[p.id].idx>> \in DOMAIN store THEN 0 ELSE 1)
       /\ \A fb \in Flipbooks :
             LET l == Indices(ListFrames(store', fb))
             IN  /\ \A i, j \in DOMAIN l : i < j => l[i] < l[j]
                 /\ {<<fb, l[i]>> : i \in DOMAIN l} = KeysOf(store', fb)]_vars

\* An upsert gave "dog" frame 0 between the findOne and the updateMany of
\* the rename of "cat" to "dog": frame 1 took the new id, frame 0 was
\* refused by the index and stays under "cat", and "dog" lists 0, 1.
C12_Witness ==
    /\ \E i \in DOMAIN http : reqs[http[i].op].kind = "rename" /\ http[i].status = 500
    /\ DOMAIN store = {<<"cat", 0>>, <<"dog", 0>>, <<"dog", 1>>}
    /\ store[<<"dog", 0>>].by = "alice"
    /\ store[<<"dog", 1>>] = InitStore[<<"cat", 1>>]
    /\ Indices(ListFrames(store, "dog")) = <<0, 1>>

\* C13: when the store executes an upsert of a key that has a document,
\* the document takes the upsert's drawingData, createdBy and updatedAt and
\* keeps its createdAt, the collection has the same keys as before, and
\* every other document, of the same flipbook or of another, is as it was.
C13_UpsertInPlace ==
    [][\A p \in pending :
          LET r == reqs[p.id]
              k == <<r.fb, r.idx>>
          IN  (Executes(p) /\ IsUpsert(r) /\ k \in DOMAIN store) =>
                 /\ DOMAIN store' = DOMAIN store
                 /\ store'[k].createdAt = store[k].createdAt
                 /\ store'[k].data = r.data
                 /\ store'[k].updatedAt = r.at
                 /\ \A x \in DOMAIN store \ {k} : store'[x] = store[x]]_vars

\* A drawing-update of cat/0, saved before the run, has been executed
\* while "cat" had frame 1 and "dog" had frame 0: the document has the new
\* drawingData and the createdAt it had.
C13_Witness ==
    \E d \in done :
        /\ d.ok
        /\ reqs[d.id].kind = "update"
        /\ <<reqs[d.id].fb, reqs[d.id].idx>> = <<"cat", 0>>
        /\ DOMAIN store = {<<"cat", 0>>, <<"cat", 1>>, <<"dog", 0>>}
        /\ store[<<"cat", 0>>].data = "Y"
        /\ store[<<"cat", 0>>].createdAt = InitStore[<<"cat", 0>>].createdAt
        /\ store[<<"cat", 0>>].updatedAt = reqs[d.id].at
        /\ store[<<"cat", 1>>] = InitStore[<<"cat", 1>>]

\* The store has executed the call of request i.
Executed(i) ==
    \/ \E q \in pending : q.id = i /\ q.phase = "ok"
    \/ \E d \in done : d.id = i /\ d.ok

\* A frame delete, over either transport, of key k.
IsDeleteOf(r, k) == r.kind \in {"delete", "rest-delete"} /\ <<r.fb, r.idx>> = k

\* C14: when the store executes an upsert of a key whose document a frame
\* delete has removed, the new document's createdAt and updatedAt are not
\* those of the removed document and are not earlier than the time of the
\* delete.
C14_FreshTimestampsAfterDelete ==
    [][\A p \in pending :
          LET r == reqs[p.id]
              k == <<r.fb, r.idx>>
          IN  (/\ Executes(p)
               /\ IsUpsert(r)
               /\ k \in DOMAIN InitStore
               /\ k \notin DOMAIN store) =>
                 \A i \in DOMAIN reqs :
                    (IsDeleteOf(reqs[i], k) /\ Executed(i)) =>
                       /\ store'[k].createdAt # InitStore[k].createdAt
                       /\ store'[k].updatedAt # InitStore[k].updatedAt
                       /\ store'[k].createdAt >= reqs[i].at
                       /\ store'[k].updatedAt >= reqs[i].at]_vars

\* A newFlipbookId that is missing, empty or only blanks.
Blank(raw) == raw \in {NoId, " "}

\* C15: a rename whose new id is missing, empty or only blanks is answered
\* 400 at once, with no store call; the findOne of any other rename finds a
\* document exactly when the collection holds a frame of the new id, and
\* the rename it found one for is answered 400 with no updateMany issued;
\* in both refusals the collection, so every document of the old and of
\* the new id, is as it was, and no event is sent.
C15_RenameRefused ==
    [][/\ (Received /\ Newest.kind = "rename" /\ Blank(Newest.newId)) =>
             /\ http' = Append(http, [op |-> Len(reqs'), status |-> 400, count |-> 0, body |-> << >>])
             /\ UNCHANGED <<store, pending, log>>
       /\ \A p \in pending : reqs[p.id].kind = "rename" =>
             /\ Executes(p) =>
                   /\ store' = store
                   /\ \E q \in pending' :
                         /\ q.id = p.id
                         /\ q.res.found =
                               (\E k \in DOMAIN store :
                                   k[1] = (IF reqs[p.id].newId = " dog " THEN "dog"
                                           ELSE reqs[p.id].newId))
             /\ (p.phase = "ok" /\ p.res.found) =>
                   /\ \A q \in pending' : q.id = p.id => q = p
                   /\ Gone(p) =>
                         /\ http' = Append(http, [op |-> p.id, status |-> 400, count |-> 0, body |-> << >>])
                         /\ UNCHANGED <<store, log>>]_vars

\* A rename of "cat" to a blank id and a rename of "dog" to "cat", which
\* has frames, were both answered 400, and the collection is as it was.
C15_Witness ==
    /\ Len(http) = 2
    /\ \A i \in {1, 2} : http[i].status = 400 /\ reqs[http[i].op].kind = "rename"
    /\ \E i \in {1, 2} : reqs[i].newId = " "
    /\ \E i \in {1, 2} : reqs[i].newId = "cat" /\ reqs[i].fb = "dog"
    /\ store = InitStore
    /\ \A c \in Conns : log[c] = << >>

\* A request that reached the server before the store executed the
\* updateMany of the rename call p.
BeforeRewrite(i, p) == reqs[i].at < p.res.at

\* C16: when a rename of old to another, unused id new answers 200, all
\* other requests being upserts of old or new that reached the server
\* before the updateMany was executed (before the rename, or between its
\* findOne and its updateMany), the collection holds no frame of old, and
\* every frame old had before the run that no upsert addressed is under new
\* with its frameIndex and drawingData.
C16_RenameMovesEveryFrame ==
    [][\A p \in pending :
          LET r == reqs[p.id]
              new == IF r.newId = " dog " THEN "dog" ELSE r.newId
          IN  (/\ r.kind = "rename"
               /\ p.phase = "rewritten"
               /\ Gone(p)
               /\ r.fb # new
               /\ \A i \in DOMAIN reqs \ {p.id} :
                     /\ IsUpsert(reqs[i])
                     /\ reqs[i].fb \in {r.fb, new}
                     /\ BeforeRewrite(i, p)) =>
                 /\ http'[Len(http')] = [op |-> p.id, status |-> 200, count |-> p.res.count, body |-> << >>]
                 /\ KeysOf(store', r.fb) = {}
                 /\ \A k \in KeysOf(InitStore, r.fb) :
                       (\A i \in DOMAIN reqs : reqs[i].idx # k[2]) =>
                          /\ <<new, k[2]>> \in DOMAIN store'
                          /\ store'[<<new, k[2]>>].data = InitStore[k].data]_vars

\* C17: a rename that was not carried out, its new id being occupied (400,
\* or 500 when the unique index refused the rewrite), is answered to the
\* requester once, and no socket is sent flipbook-renamed or any other
\* event for it.
C17_ConflictNotBroadcast ==
    \A i \in DOMAIN http :
        (reqs[http[i].op].kind = "rename" /\ http[i].status # 200) =>
            /\ \A c \in Conns : EventsOf(c, http[i].op) = << >>
            /\ \A j \in DOMAIN http : http[j].op = http[i].op => j = i

\* A and B are in room "cat"; "dog" got a frame, and the rename of "cat"
\* to "dog" was answered 400: neither socket was sent an event for it.
C17_Witness ==
    \E i \in DOMAIN http :
        /\ reqs[http[i].op].kind = "rename"
        /\ reqs[http[i].op].fb = "cat"
        /\ reqs[http[i].op].newId = "dog"
        /\ http[i].status = 400
        /\ \E d \in done : d.id = http[i].op /\ d.room = {"A", "B"}
        /\ KeysOf(store, "dog") # {}
        /\ \A c \in Conns : EventsOf(c, http[i].op) = << >>

\* The events of the given type that socket c is sent in this step.
NewEvents(c, type) ==
    {i \in DOMAIN log'[c] : i > Len(log[c]) /\ log'[c][i].type = type}

DeleteFlipbookEffect ==
    \A p \in pending : reqs[p.id].kind = "delete-flipbook" =>
        LET F == reqs[p.id].fb
        IN  /\ Executes(p) =>
                  /\ KeysOf(store', F) = {}
                  /\ \A k \in DOMAIN store \ KeysOf(store, F) :
                        k \in DOMAIN store' /\ store'[k] = store[k]
                  /\ DOMAIN store' \subseteq DOMAIN store
                  /\ \E q \in pending' :
                        q.id = p.id /\ q.res.count = Cardinality(KeysOf(store, F))
            /\ (p.phase = "ok" /\ Gone(p)) =>
                  /\ http' = Append(http, [op |-> p.id, status |-> 200,
                                           count |-> p.res.count, body |-> << >>])
                  /\ \A c \in Conns :
                        IF F \in rooms[c]
                        THEN /\ Len(log'[c]) = Len(log[c]) + 1
                             /\ SubSeq(log'[c], 1, Len(log[c])) = log[c]
                             /\ log'[c][Len(log'[c])].type = "flipbook-deleted"
                             /\ log'[c][Len(log'[c])].fb = F
                        ELSE log'[c] = log[c]

\* A flipbook whose deleteMany the store has executed and which has no
\* frame gets one in this step.
Refilled(F) ==
    /\ \E i \in DOMAIN reqs :
          reqs[i].kind = "delete-flipbook" /\ reqs[i].fb = F /\ Executed(i)
    /\ KeysOf(store, F) = {}
    /\ KeysOf(store', F) # {}

\* The store executes an upsert of a frame of F in this step.
UpsertExecuted(F) ==
    \E p \in pending : Executes(p) /\ IsUpsert(reqs[p.id]) /\ reqs[p.id].fb = F

\* C19 as stated: the flipbook delete has the effect above, and a deleted
\* flipbook stays without frames until the store executes an upsert of one
\* of its frames.
C19_DeletedUntilUpsert ==
    [][/\ DeleteFlipbookEffect
       /\ \A F \in Flipbooks : Refilled(F) => UpsertExecuted(F)]_vars

\* C19, amended: the flipbook delete has the effect above, and a deleted
\* flipbook stays without frames until the store executes an upsert of one
\* of its frames or the updateMany of a rename to its id.
C19_DeletedUntilUpsertOrRename ==
    [][/\ DeleteFlipbookEffect
       /\ \A F \in Flipbooks :
             Refilled(F) =>
                \/ UpsertExecuted(F)
                \/ \E p \in Rewrites :
                      F = (IF reqs[p.id].newId = " dog " THEN "dog" ELSE reqs[p.id].newId)]_vars

\* "dog" had got a frame when "cat", with two frames and A and B in its
\* room, was deleted: the answer was 200 with deletedCount 2, both sockets
\* were sent flipbook-deleted, and the collection holds the frame of "dog"
\* only.
C19_Witness ==
    \E i \in DOMAIN http :
        /\ reqs[http[i].op].kind = "delete-flipbook"
        /\ reqs[http[i].op].fb = "cat"
        /\ http[i].status = 200
        /\ http[i].count = 2
        /\ \A c \in Conns :
              /\ Len(EventsOf(c, http[i].op)) = 1
              /\ EventsOf(c, http[i].op)[1].type = "flipbook-deleted"
        /\ DOMAIN store = {<<"dog", 0>>}

\* C20: cursor-move(F, x, y, userId) of socket A issues no store call and
\* leaves the collection as it is; every socket in room F other than A is
\* sent one cursor-updated with A's socket id and the x, y and userId of
\* the request; A and the sockets outside room F are sent nothing.
C20_CursorRelay ==
    [][(Received /\ Newest.kind = "cursor") =>
          /\ UNCHANGED <<store, pending, http>>
          /\ \A c \in Conns :
                IF c # Newest.conn /\ Newest.fb \in rooms[c]
                THEN /\ Len(log'[c]) = Len(log[c]) + 1
                     /\ SubSeq(log'[c], 1, Len(log[c])) = log[c]
                     /\ LET e == log'[c][Len(log'[c])]
                        IN  /\ e.type = "cursor-updated"
                            /\ e.socketId = Newest.conn
                            /\ e.x = Newest.x
                            /\ e.y = Newest.y
                            /\ e.userId = Newest.by
                ELSE log'[c] = log[c]]_vars

\* A, in room "cat" with B, has sent cursor-move(cat, 1, 2, alice): B has
\* been sent cursor-updated with A's id and the position, A nothing, and
\* the collection is as it was.
C20_Witness ==
    /\ Len(reqs) = 1
    /\ reqs[1].kind = "cursor" /\ reqs[1].conn = "A" /\ reqs[1].fb = "cat"
    /\ log["A"] = << >>
    /\ Len(log["B"]) = 1
    /\ log["B"][1].type = "cursor-updated"
    /\ log["B"][1].socketId = "A"
    /\ <<log["B"][1].x, log["B"][1].y>> = <<1, 2>>
    /\ log["B"][1].userId = "alice"
    /\ store = InitStore
    /\ pending = {}

\* C21: a cursor-move naming flipbook F from a socket that is not in room F
\* is dropped: no socket is sent cursor-updated for it.
C21_OutsiderCursorDropped ==
    \A d \in done :
        (reqs[d.id].kind = "cursor" /\ reqs[d.id].conn \notin d.room) =>
            \A c \in Conns : EventsOf(c, d.id) = << >>

\* C22: when the store rejects the call of a join-flipbook or of a
\* frame-delete, the sender is sent one failure event for the request and
\* no other socket is sent anything for it.
C22_StoreFailureReported ==
    \A d \in done :
        LET r == reqs[d.id]
        IN  (r.kind \in {"join", "delete"} /\ ~d.ok) =>
                \A c \in Conns :
                    IF c = r.conn
                    THEN /\ Len(EventsOf(c, d.id)) = 1
                         /\ EventsOf(c, d.id)[1].type = "drawing-error"
                    ELSE EventsOf(c, d.id) = << >>

\* C23: the store call of a drawing-update or frame-delete on flipbook F
\* leaves every document of another flipbook as it was and adds none to
\* another flipbook; and when its handler finishes, the call returned or
\* rejected, or fails before the call for want of a payload, no document
\* changes and a socket that is not in room F is sent nothing, except the
\* sender, who is sent at most its reply (drawing-saved or drawing-error).
C23_RoomsIndependent ==
    [][/\ \A p \in pending : IsMutation(reqs[p.id]) =>
             LET r == reqs[p.id]
             IN  /\ Executes(p) =>
                       /\ \A k \in DOMAIN store :
                             k[1] # r.fb => k \in DOMAIN store' /\ store'[k] = store[k]
                       /\ \A k \in DOMAIN store' : k[1] # r.fb => k \in DOMAIN store
                 /\ Gone(p) =>
                       /\ store' = store
                       /\ \A c \in Conns : r.fb \notin rooms[c] =>
                             IF c # r.conn THEN log'[c] = log[c]
                             ELSE \/ log'[c] = log[c]
                                  \/ /\ Len(log'[c]) = Len(log[c]) + 1
                                     /\ SubSeq(log'[c], 1, Len(log[c])) = log[c]
                                     /\ log'[c][Len(log'[c])].type \in
                                           {"drawing-saved", "drawing-error"}
       /\ (Received /\ IsMutation(Newest)) =>
             /\ store' = store
             /\ \A c \in Conns \ {Newest.conn} : log'[c] = log[c]]_vars

\* B has left "cat"; A's drawing-update of cat/0 was saved: B was sent
\* nothing, A was sent drawing-saved.
C23_Witness ==
    \E d \in done :
        /\ d.ok
        /\ reqs[d.id].kind = "update"
        /\ reqs[d.id].conn = "A"
        /\ reqs[d.id].fb = "cat"
        /\ rooms["B"] = {}
        /\ connected["B"] = "open"
        /\ log["B"] = << >>
        /\ Len(log["A"]) = 1

\* A request that writes the document of key k.
WritesKey(r, k) ==
    r.kind \in {"update", "rest-save", "delete", "rest-delete"} /\ <<r.fb, r.idx>> = k

\* C24: a drawing-saved is sent only for a drawing-update whose upsert the
\* store has executed, and the execution left the key with the update's
\* drawingData; a single-frame GET of the key that the store executes after
\* the drawing-saved was sent, the update being the only request that
\* writes the key, finds the document with that drawingData; and when the
\* room has no member but the sender, the step that sends drawing-saved
\* sends nothing to any other socket.
C24_SavedMeansPersisted ==
    [][/\ \A c \in Conns : \A i \in NewEvents(c, "drawing-saved") :
             \E p \in pending : p.id = log'[c][i].op /\ p.phase = "ok"
       /\ \A p \in pending :
             LET r == reqs[p.id]
                 k == <<r.fb, r.idx>>
             IN  /\ (r.kind = "update" /\ Executes(p)) =>
                       k \in DOMAIN store' /\ store'[k].data = r.data
                 /\ (r.kind = "update" /\ p.phase = "ok" /\ Gone(p)
                       /\ Members(r.fb) \ {r.conn} = {}) =>
                       \A c \in Conns \ {r.conn} : log'[c] = log[c]
                 /\ (r.kind = "rest-get" /\ Executes(p)) =>
                       \A d \in done :
                          (/\ d.ok
                           /\ reqs[d.id].kind = "update"
                           /\ WritesKey(reqs[d.id], k)
                           /\ \A i \in DOMAIN reqs \ {d.id} : ~WritesKey(reqs[i], k)) =>
                             \E q \in pending' :
                                /\ q.id = p.id
                                /\ q.res.found
                                /\ q.res.data = reqs[d.id].data]_vars

\* B, the only member of room "dog", was sent drawing-saved for its update
\* of dog/0, A was sent nothing, and the GET of dog/0 issued afterwards
\* has found the drawingData B sent.
C24_Witness ==
    \E p \in pending : \E d \in done :
        /\ d.ok /\ d.id < p.id
        /\ reqs[d.id].kind = "update" /\ reqs[d.id].conn = "B" /\ reqs[d.id].fb = "dog"
        /\ d.room = {"B"}
        /\ reqs[p.id].kind = "rest-get" /\ reqs[p.id].fb = "dog"
        /\ p.phase = "ok" /\ p.res.found /\ p.res.data = "X"
        /\ log["A"] = << >>
        /\ Len(log["B"]) = 1 /\ log["B"][1].type = "drawing-saved"

\* The drawing-updated events socket c was sent for the frame with key k.
UpdatesSeen(c, k) ==
    SelectSeq(log[c], LAMBDA e : e.type = "drawing-updated" /\ <<e.fb, e.idx>> = k)

\* The requests that write key k are drawing-updates of different sockets,
\* all saved and acknowledged.
UpdatesSettled(k) ==
    LET ws == {i \in DOMAIN reqs : WritesKey(reqs[i], k)}
    IN  /\ Cardinality(ws) > 1
        /\ \A i \in ws :
              /\ reqs[i].kind = "update"
              /\ \E d \in done : d.id = i /\ d.ok
              /\ \A j \in ws : j # i => reqs[j].conn # reqs[i].conn

\* C25: once the concurrent drawing-updates of different sockets on one
\* frame have all completed, the drawingData of the last drawing-updated
\* that a member of the room was sent for the frame is the drawingData the
\* collection holds for it.
C25_ViewMatchesStore ==
    \A k \in DOMAIN store :
        UpdatesSettled(k) =>
            \A c \in Members(k[1]) :
                UpdatesSeen(c, k) # << >> =>
                    UpdatesSeen(c, k)[Len(UpdatesSeen(c, k))].data = store[k].data

\* The snapshots sent to socket c, each with the flipbook its join named.
SnapshotsOf(c) ==
    { <<log[c][i].frames, reqs[log[c][i].op].fb>> :
          i \in {j \in DOMAIN log[c] : log[c][j].type = "flipbook-state"} }

\* The frame list is dense over the snapshot ds of the current flipbook cur.
Dense(ds, cur) ==
    LET frames == BuildFrames(ds, cur)
    IN  /\ \A j \in DOMAIN ds :
               /\ ds[j].idx + 1 \in DOMAIN frames
               /\ frames[ds[j].idx + 1] = ClientFrame(ds[j])
        /\ ds # << >> =>
               /\ Len(frames) = MaxIndex(ds) + 1
               /\ \A i \in DOMAIN frames :
                      (\A j \in DOMAIN ds : ds[j].idx # i - 1) =>
                          frames[i] = Placeholder(cur, i - 1)
        /\ (ds = << >> /\ cur # NoId) => frames = <<Placeholder(cur, 0)>>

\* C26: the frame list the client builds from a flipbook-state is dense from
\* index 0 to the largest stored frameIndex: every frame of the snapshot
\* sits at the position of its frameIndex, every other position holds an
\* empty placeholder with that index, and an empty snapshot of a current
\* flipbook gives the single empty frame 0.
C26_DenseFrameList ==
    \A c \in Conns : \A s \in SnapshotsOf(c) : Dense(s[1], s[2])

\* Request i is a mutation of the flipbook Served.
MutatesServed(i) ==
    i \in DOMAIN reqs /\ reqs[i].fb = Served /\ IsMutation(reqs[i])

\* Request i has been applied to the store and broadcast: its handler has
\* finished after the store executed its call, and every member of the room
\* whom the broadcast addresses was sent the event.
AppliedAndBroadcast(i) ==
    /\ \E d \in done : d.id = i /\ d.ok
    /\ \A c \in Members(reqs[i].fb) :
           (reqs[i].kind = "delete" \/ c # reqs[i].conn) =>
               \E j \in DOMAIN log[c] :
                   log[c][j].op = i /\ IsMutationEvent(log[c][j])

\* C27: whatever happens to the calls on another flipbook, which may never
\* be answered, every drawing-update and frame-delete on a flipbook whose
\* calls the store answers is in the end applied to the store and broadcast
\* to the flipbook's room.
C27_OtherRoomsNotBlocked ==
    \A i \in 1..MaxOps : [](MutatesServed(i) => <>AppliedAndBroadcast(i))

\* A drawing-update on Served, received after a call on Stalled that is
\* still unanswered, has been stored and sent to the member of its room.
C27_Witness ==
    \E p \in pending : \E d \in done :
        /\ p.phase = "sent" /\ reqs[p.id].fb = Stalled
        /\ d.id > p.id /\ d.ok
        /\ reqs[d.id].kind = "update" /\ reqs[d.id].fb = Served /\ reqs[d.id].conn = "A"
        /\ store[<<Served, 0>>].data = "X"
        /\ \E j \in DOMAIN log["B"] :
               log["B"][j].op = d.id /\ log["B"][j].type = "drawing-updated"

\* The frames of flipbook fb in the collection st.
FramesOf(st, fb) == {k \in DOMAIN st : k[1] = fb}

\* Entry e gives, for flipbook fb, the number of its frames, the latest
\* updatedAt and the earliest createdAt among them.
Describes(e, st, fb) ==
    /\ e.flipbookId = fb
    /\ e.frameCount = Cardinality(FramesOf(st, fb))
    /\ \E k \in FramesOf(st, fb) : st[k].updatedAt = e.lastUpdated
    /\ \A k \in FramesOf(st, fb) : st[k].updatedAt <= e.lastUpdated
    /\ \E k \in FramesOf(st, fb) : st[k].createdAt = e.createdAt
    /\ \A k \in FramesOf(st, fb) : st[k].createdAt >= e.createdAt

\* L is the list of summaries of the collection st.
SummarisesAll(L, st) ==
    /\ {L[i].flipbookId : i \in DOMAIN L} = {k[1] : k \in DOMAIN st}
    /\ \A i, j \in DOMAIN L : i # j => L[i].flipbookId # L[j].flipbookId
    /\ \A i \in DOMAIN L : Describes(L[i], st, L[i].flipbookId)
    /\ \A i, j \in DOMAIN L : i < j => L[i].lastUpdated >= L[j].lastUpdated

\* The store answers the aggregation of call p in this step.
Aggregates(p) ==
    p.phase = "aggregate" /\ \E q \in pending' : q.id = p.id /\ q.phase = "ok"

\* C28: the list of summaries the store returns has exactly one entry for
\* each flipbook id with a stored frame, with the number of its frames, the
\* maximum updatedAt and the minimum createdAt of its frames, by lastUpdated
\* descending; the info of a flipbook gives the same three values for its
\* id, and frameCount 0 with null dates for an id without frames; and each
\* route answers 200 with what the store returned.
C28_Summaries ==
    [][\A p \in pending :
          LET r == reqs[p.id]
          IN  /\ (r.kind = "list" /\ Aggregates(p)) =>
                    \A q \in pending' :
                        q.id = p.id => SummarisesAll(q.res.summaries, store)
              /\ (r.kind = "info" /\ Executes(p)) =>
                    \A q \in pending' :
                        q.id = p.id =>
                            /\ Len(q.res.summaries) = 1
                            /\ LET e == q.res.summaries[1]
                               IN  IF FramesOf(store, r.fb) # {}
                                   THEN Describes(e, store, r.fb)
                                   ELSE /\ e.flipbookId = r.fb
                                        /\ e.frameCount = 0
                                        /\ e.lastUpdated = NoDate
                                        /\ e.createdAt = NoDate
              /\ (r.kind \in SummaryRoutes /\ p.phase = "ok" /\ Gone(p)) =>
                    /\ Len(http') = Len(http) + 1
                    /\ http'[Len(http')].op = p.id
                    /\ http'[Len(http')].status = 200
                    /\ http'[Len(http')].body = p.res.summaries]_vars

\* After a drawing-update of cat/0 the list was answered: "cat", with two
\* frames, the update's time as lastUpdated and the older createdAt, comes
\* before "dog", whose only frame is older.
C28_Witness ==
    \E i \in DOMAIN http :
        /\ reqs[http[i].op].kind = "list"
        /\ http[i].status = 200
        /\ http[i].body =
              << [flipbookId |-> "cat", frameCount |-> 2, lastUpdated |-> 1, createdAt |-> 0],
                 [flipbookId |-> "dog", frameCount |-> 1, lastUpdated |-> 0, createdAt |-> 0] >>

\* C29: the store executes every frame-delete by removing the frame,
\* however many frames its flipbook is left with: when the frame is the only
\* one of the flipbook, the flipbook has no stored frame afterwards; and
\* the handler whose call returned sends frame-deleted to every member of
\* the room.
C29_LastFrameDeleted ==
    [][\A p \in pending :
          LET r == reqs[p.id]
              k == <<r.fb, r.idx>>
          IN  /\ (r.kind = "delete" /\ Executes(p)) =>
                    /\ DOMAIN store' = DOMAIN store \ {k}
                    /\ \A x \in DOMAIN store' : store'[x] = store[x]
                    /\ FramesOf(store, r.fb) = {k} => FramesOf(store', r.fb) = {}
              /\ (r.kind = "delete" /\ p.phase = "ok" /\ Gone(p)) =>
                    \A c \in Members(r.fb) :
                        /\ Len(log'[c]) = Len(log[c]) + 1
                        /\ Shape(log'[c][Len(log'[c])]) =
                              [type |-> "frame-deleted", fb |-> r.fb, idx |-> r.idx,
                               data |-> NoData]]_vars

\* The only frame of "dog" was deleted by a frame-delete, no other request
\* having written it: "dog" has no stored frame, and B, the member of its
\* room, was sent frame-deleted.
C29_Witness ==
    \E d \in done :
        /\ d.ok
        /\ reqs[d.id].kind = "delete" /\ reqs[d.id].fb = "dog" /\ reqs[d.id].idx = 0
        /\ \A i \in DOMAIN reqs : WritesKey(reqs[i], <<"dog", 0>>) => i = d.id
        /\ FramesOf(InitStore @@ (<<"dog", 0>> :> Old("Z")), "dog") = {<<"dog", 0>>}
        /\ FramesOf(store, "dog") = {}
        /\ \E j \in DOMAIN log["B"] :
               log["B"][j].op = d.id /\ log["B"][j].type = "frame-deleted"

\* The snapshot frames holds the frame with key k and the drawingData data.
Holds(frames, k, data) ==
    \E n \in DOMAIN frames :
        frames[n].fb = k[1] /\ frames[n].idx = k[2] /\ frames[n].data = data

\* C30: a socket that joins a flipbook is not sent a flipbook-state older
\* than a drawing-updated it was sent before: when the drawing-updated of an
\* update received after the join, with a frameIndex and the only request
\* that writes its frame, comes before the flipbook-state of the join in what the socket is sent,
\* the snapshot holds the frame with the update's drawingData.
C30_SnapshotNotStale ==
    \A c \in Conns : \A i, j \in DOMAIN log[c] :
        LET u == log[c][i]
            e == log[c][j]
            k == <<u.fb, u.idx>>
        IN  (/\ i < j
             /\ u.type = "drawing-updated"
             /\ e.type = "flipbook-state"
             /\ e.fb = u.fb
             /\ e.op < u.op
             /\ u.idx # NoIdx
             /\ \A n \in DOMAIN reqs : WritesKey(reqs[n], k) => n = u.op)
                => Holds(e.frames, k, u.data)

\* C35: a drawing-update or frame-delete on a flipbook whose room the
\* sending socket has not joined changes no stored frame of the flipbook,
\* and its handler sends the members of the room nothing.
C35_OnlyMembersAct ==
    [][\A p \in pending :
          LET r == reqs[p.id]
          IN  (IsMutation(r) /\ r.fb \notin rooms[r.conn]) =>
                  /\ Executes(p) =>
                        \A k \in FramesOf(store, r.fb) \cup FramesOf(store', r.fb) :
                            k \in DOMAIN store /\ k \in DOMAIN store' /\ store'[k] = store[k]
                  /\ Gone(p) => \A c \in Members(r.fb) : log'[c] = log[c]]_vars

\* C36: every frame saved or deleted through the REST frame routes is
\* relayed to the room of its flipbook: once the route has answered after
\* its store call returned, every member of the room was sent the
\* drawing-updated or frame-deleted of that request.
C36_RestChangesRelayed ==
    \A d \in done :
        LET r == reqs[d.id]
        IN  (d.ok /\ r.kind \in {"rest-save", "rest-delete"}) =>
                \A c \in d.room :
                    \E j \in DOMAIN log[c] :
                        /\ log[c][j].op = d.id
                        /\ log[c][j].type =
                              (IF r.kind = "rest-save" THEN "drawing-updated"
                               ELSE "frame-deleted")

\* C37: a rename never merges two flipbooks and never moves one in part:
\* whenever the updateMany of a rename of old to another id new, executed or
\* refused by the unique index, gives a frame the id new, new held no frame
\* before the step (whatever came to hold new since the existence check has
\* stopped the rename) and old holds none after it.
C37_RenameNeverMerges ==
    [][\A p \in Rewrites :
          LET old == reqs[p.id].fb
              new == Trim(reqs[p.id].newId)
          IN  (old # new /\ KeysOf(store', new) # KeysOf(store, new)) =>
                  /\ KeysOf(store, new) = {}
                  /\ KeysOf(store', old) = {}]_vars

\* C38: when the store executes a frame delete, over either transport, at
\* most the document with the key is removed: every other document stays
\* as it was under its own frameIndex, and the listing of the flipbook is
\* the former listing without the entry for that index, the entries above
\* it keeping their frameIndex.
C38_DeleteLeavesOthers ==
    [][\A p \in pending :
          LET r == reqs[p.id]
              k == <<r.fb, r.idx>>
          IN  (IsDeleteOf(r, k) /\ Executes(p)) =>
                  /\ DOMAIN store \ DOMAIN store' \subseteq {k}
                  /\ DOMAIN store' \subseteq DOMAIN store
                  /\ \A x \in DOMAIN store \ {k} : store'[x] = store[x]
                  /\ ListFrames(store', r.fb) =
                        SelectSeq(ListFrames(store, r.fb), LAMBDA f : f.idx # r.idx)]_vars

\* Frame 0 of "cat" was deleted through the REST route: frame 1 is stored
\* under index 1 as before, and the listing of "cat" starts at index 1.
C38_Witness ==
    /\ \E d \in done :
          d.ok /\ reqs[d.id].kind = "rest-delete" /\ reqs[d.id].fb = "cat" /\ reqs[d.id].idx = 0
    /\ <<"cat", 0>> \notin DOMAIN store
    /\ <<"cat", 1>> \in DOMAIN store /\ store[<<"cat", 1>>] = InitStore[<<"cat", 1>>]
    /\ Indices(ListFrames(store, "cat")) = <<1>>

----------------------------------------------------------------------------
\* The page (src/unnamed/part_002): its gestures and handlers.  A message
\* the page sends is received by the server in the same step; the store
\* executes the calls, and the handlers resume, in any order.  A position i
\* of the JavaScript array frames is position i + 1 of the sequence.

\* The requests the pages may have sent in all.
MaxReqs == 4

\* canvas.toDataURL(): what is drawn on the canvas.
Drawn == "Y"
\* currentFrameIndex after (currentFrameIndex + 1) % 0.  The gestures that
\* save the current frame are followed on pages whose index is a number.
NaN == -2
Numbered(pg) == pg.cur # NaN

\* The requests rs, received now in this order.
Stamped(rs) == [i \in DOMAIN rs |-> [rs[i] EXCEPT !.at = Len(reqs) + i]]

\* socket.emit and fetch of the requests rs: the server receives them and
\* their handlers issue their store calls; leave-flipbook issues none.
Post(rs) ==
    /\ Len(reqs) + Len(rs) <= MaxReqs
    /\ reqs' = reqs \o Stamped(rs)
    /\ pending' = pending \cup
                    {Call(Len(reqs) + i) : i \in {j \in DOMAIN rs : rs[j].kind # "leave"}}

\* while (frames.length <= i) frames.push(placeholder).
PadTo(frames, fb, i) ==
    [n \in 1..(IF Len(frames) > i THEN Len(frames) ELSE i + 1) |->
        IF n <= Len(frames) THEN frames[n] ELSE Placeholder(fb, n - 1)]

\* saveCurrentFrame(): the frame list after it, and what it sends.
SavedFrames(pg) ==
    IF pg.fb = NoId \/ pg.cur < 0 THEN pg.frames
    ELSE [PadTo(pg.frames, pg.fb, pg.cur) EXCEPT
              ![pg.cur + 1] = [fb |-> pg.fb, idx |-> pg.cur, data |-> Drawn]]
SaveRequests(c, pg) ==
    IF pg.fb = NoId \/ pg.cur < 0 THEN << >>
    ELSE (IF connected[c] = "open"
          THEN << Request("update", c, Payload(pg.fb, pg.cur, Drawn, "user")) >>
          ELSE << >>)
         \o << Request("rest-save", NoConn, Payload(pg.fb, pg.cur, Drawn, "user")) >>

\* A fetch whose answer the page awaits: the request, and the frame index
\* or the ids its continuation has captured.
Wait(kind, op, idx, old, new) ==
    [kind |-> kind, op |-> op, idx |-> idx, old |-> old, new |-> new]

\* The answer to request op has arrived.
Answered(op) == \E i \in DOMAIN http : http[i].op = op
StatusOf(op) == http[CHOOSE i \in DOMAIN http : http[i].op = op].status

\* goToFrame(index).
GoToFrame(c, index) ==
    LET pg == client[c]
    IN  /\ index >= 0 /\ index < Len(pg.frames)
        /\ Numbered(pg)
        /\ Post(SaveRequests(c, pg))
        /\ client' = [client EXCEPT ![c] =
                         [pg EXCEPT !.playing = FALSE, !.frames = SavedFrames(pg),
                                    !.cur = index]]
        /\ UNCHANGED <<store, rooms, connected, done, log, http>>

\* previousFrame(): playback stops; past the first frame the frame is
\* saved and currentFrameIndex moves back.
PreviousFrame(c) ==
    LET pg == client[c]
    IN  /\ Numbered(pg)
        /\ IF pg.cur > 0
           THEN /\ Post(SaveRequests(c, pg))
                /\ client' = [client EXCEPT ![c] =
                                 [pg EXCEPT !.playing = FALSE, !.frames = SavedFrames(pg),
                                            !.cur = pg.cur - 1]]
           ELSE /\ client' = [client EXCEPT ![c] = [pg EXCEPT !.playing = FALSE]]
                /\ UNCHANGED <<reqs, pending>>
        /\ UNCHANGED <<store, rooms, connected, done, log, http>>

\* addFrame() up to its fetch, on the page pg: the new frame is pushed and
\* its POST is sent after the requests before.
Pushed(pg) ==
    Append(pg.frames, [fb |-> pg.fb, idx |-> Len(pg.frames), data |-> NoData])
PostOfNewFrame(pg) ==
    Request("rest-save", NoConn, Payload(pg.fb, Len(pg.frames), NoData, "user"))

\* nextFrame(): the frame is saved and currentFrameIndex moves on; past the
\* last frame addFrame() is called, which pushes the new frame and awaits
\* its POST.
NextFrame(c) ==
    LET pg == client[c]
        saved == [pg EXCEPT !.playing = FALSE, !.frames = SavedFrames(pg),
                            !.cur = pg.cur + 1]
        before == SaveRequests(c, pg)
    IN  /\ Numbered(pg)
        /\ IF saved.cur >= Len(saved.frames) /\ saved.fb # NoId
           THEN /\ Post(Append(before, PostOfNewFrame(saved)))
                /\ client' = [client EXCEPT ![c] =
                      [saved EXCEPT
                          !.frames = Pushed(saved),
                          !.waits = @ \cup {Wait("addFrame", Len(reqs) + Len(before) + 1,
                                                 Len(saved.frames), NoId, NoId)}]]
           ELSE /\ Post(before)
                /\ client' = [client EXCEPT ![c] = saved]
        /\ UNCHANGED <<store, rooms, connected, done, log, http>>

\* addFrame(), from its button.
AddFrame(c) ==
    LET pg == client[c]
        saves == Len(pg.frames) > 0 /\ pg.cur < Len(pg.frames)
        saved == IF saves THEN [pg EXCEPT !.frames = SavedFrames(pg)] ELSE pg
        before == IF saves THEN SaveRequests(c, pg) ELSE << >>
    IN  /\ pg.fb # NoId
        /\ Numbered(pg)
        /\ Post(Append(before, PostOfNewFrame(saved)))
        /\ client' = [client EXCEPT ![c] =
              [saved EXCEPT
                  !.frames = Pushed(saved),
                  !.waits = @ \cup {Wait("addFrame", Len(reqs) + Len(before) + 1,
                                         Len(saved.frames), NoId, NoId)}]]
        /\ UNCHANGED <<store, rooms, connected, done, log, http>>

\* addFrame() after its fetch: the new frame becomes the current one, or,
\* the save having failed, frames.pop().
AddFrameDone(c, w) ==
    LET pg == client[c]
    IN  /\ w \in pg.waits
        /\ w.kind = "addFrame"
        /\ Answered(w.op)
        /\ client' = [client EXCEPT ![c] =
              IF StatusOf(w.op) = 200
              THEN [pg EXCEPT !.waits = @ \ {w}, !.cur = w.idx]
              ELSE [pg EXCEPT !.waits = @ \ {w},
                              !.frames = IF @ = << >> THEN @ ELSE SubSeq(@, 1, Len(@) - 1)]]
        /\ UNCHANGED <<store, rooms, connected, reqs, pending, done, log, http>>

\* What deleteFrame() sends for the frame at the position.
DeleteRequests(c, pg, position) ==
    LET idx == pg.frames[position + 1].idx
    IN  (IF connected[c] = "open"
         THEN << Request("delete", c, Payload(pg.fb, idx, NoData, NoBy)) >>
         ELSE << >>)
        \o << Request("rest-delete", NoConn, Payload(pg.fb, idx, NoData, NoBy)) >>

\* deleteFrame(frameIndex) up to its fetch, the user confirming: playback
\* stops; the delete is refused when the list has one frame or none; else
\* frame-delete is emitted and the DELETE is sent for the frameIndex of
\* the frame at the position.
DeleteFrame(c, position) ==
    LET pg == client[c]
    IN  /\ position >= 0
        /\ IF Len(pg.frames) <= 1
           THEN /\ client' = [client EXCEPT ![c] = [pg EXCEPT !.playing = FALSE]]
                /\ UNCHANGED <<reqs, pending>>
           ELSE /\ position < Len(pg.frames)
                /\ Post(DeleteRequests(c, pg, position))
                /\ client' = [client EXCEPT ![c] =
                      [pg EXCEPT
                          !.playing = FALSE,
                          !.waits = @ \cup
                              {Wait("deleteFrame",
                                    Len(reqs) + Len(DeleteRequests(c, pg, position)),
                                    position, NoId, NoId)}]]
        /\ UNCHANGED <<store, rooms, connected, done, log, http>>

\* frames.filter((f, idx) => idx !== position), then frame.frameIndex = idx
\* for every frame left.
Renumbered(frames, position) ==
    LET kept == [n \in 1..(IF position < Len(frames) THEN Len(frames) - 1 ELSE Len(frames)) |->
                    IF n <= position THEN frames[n] ELSE frames[n + 1]]
    IN  [n \in DOMAIN kept |-> [kept[n] EXCEPT !.idx = n - 1]]

\* deleteFrame() after its fetch, whatever the status of the answer.
DeleteFrameDone(c, w) ==
    LET pg == client[c]
        left == Renumbered(pg.frames, w.idx)
    IN  /\ w \in pg.waits
        /\ w.kind = "deleteFrame"
        /\ Answered(w.op)
        /\ client' = [client EXCEPT ![c] =
              [pg EXCEPT !.waits = @ \ {w},
                         !.frames = left,
                         !.cur = IF pg.cur >= Len(left) THEN Len(left) - 1
                                 ELSE IF pg.cur > w.idx THEN pg.cur - 1
                                 ELSE pg.cur]]
        /\ UNCHANGED <<store, rooms, connected, reqs, pending, done, log, http>>

\* togglePlayback(): with two frames or more, playback stops, or the frame
\* is saved and playback starts.
TogglePlayback(c) ==
    LET pg == client[c]
    IN  /\ Len(pg.frames) >= 2
        /\ Numbered(pg)
        /\ IF pg.playing
           THEN /\ client' = [client EXCEPT ![c] = [pg EXCEPT !.playing = FALSE]]
                /\ UNCHANGED <<reqs, pending>>
           ELSE /\ Post(SaveRequests(c, pg))
                /\ client' = [client EXCEPT ![c] =
                                 [pg EXCEPT !.playing = TRUE, !.frames = SavedFrames(pg)]]
        /\ UNCHANGED <<store, rooms, connected, done, log, http>>

\* A tick of the playback interval.
Tick(c) ==
    LET pg == client[c]
    IN  /\ pg.playing
        /\ client' = [client EXCEPT ![c] =
              [pg EXCEPT !.cur = IF Len(pg.frames) = 0 \/ pg.cur = NaN THEN NaN
                                 ELSE (pg.cur + 1) % Len(pg.frames)]]
        /\ UNCHANGED <<store, rooms, connected, reqs, pending, done, log, http>>

\* selectFlipbook(fb), joinFlipbook() of a connected page: the page takes
\* fb as its flipbook and emits join-flipbook; nothing is emitted for the
\* flipbook it had.
SelectFlipbook(c, fb) ==
    LET pg == client[c]
    IN  /\ fb # NoId
        /\ connected[c] = "open"
        /\ Post(<< Request("join", c, Payload(fb, NoIdx, NoData, NoBy)) >>)
        /\ rooms' = [rooms EXCEPT ![c] = @ \cup {fb}]
        /\ client' = [client EXCEPT ![c] = [pg EXCEPT !.playing = FALSE, !.fb = fb]]
        /\ UNCHANGED <<store, connected, done, log, http>>

\* renameFlipbookWithName(old, new) up to its fetch.
RenameFlipbookWithName(c, old, new) ==
    LET pg == client[c]
    IN  /\ new # NoId /\ Trim(new) # "" /\ Trim(new) # old
        /\ Post(<< Request("rename", NoConn, RenameBody(old, Trim(new))) >>)
        /\ client' = [client EXCEPT ![c] =
              [pg EXCEPT !.waits = @ \cup {Wait("rename", Len(reqs) + 1, NoIdx, old,
                                                Trim(new))}]]
        /\ UNCHANGED <<store, rooms, connected, done, log, http>>

\* renameFlipbookWithName() after its fetch, on a connected page: when the
\* answer is ok and the renamed flipbook is still the current one, the page
\* takes the new id, leaves the old room and joins the new one.
RenameDone(c, w) ==
    LET pg == client[c]
        moves == StatusOf(w.op) = 200 /\ w.old = pg.fb
    IN  /\ w \in pg.waits
        /\ w.kind = "rename"
        /\ Answered(w.op)
        /\ connected[c] = "open"
        /\ IF moves
           THEN /\ Post(<< Request("leave", c, Payload(w.old, NoIdx, NoData, NoBy)),
                           Request("join", c, Payload(w.new, NoIdx, NoData, NoBy)) >>)
                /\ rooms' = [rooms EXCEPT ![c] = (@ \ {w.old}) \cup {w.new}]
                /\ client' = [client EXCEPT ![c] =
                                 [pg EXCEPT !.waits = @ \ {w}, !.fb = w.new]]
           ELSE /\ client' = [client EXCEPT ![c] = [pg EXCEPT !.waits = @ \ {w}]]
                /\ UNCHANGED <<rooms, reqs, pending>>
        /\ UNCHANGED <<store, connected, done, log, http>>

\* The next event of the socket that the page has not handled.
Incoming(c) == log[c][client[c].seen + 1]

\* socket.on('drawing-updated').
OnDrawingUpdated(pg, e) ==
    IF e.fb # pg.fb THEN pg
    ELSE [pg EXCEPT !.frames = [PadTo(pg.frames, pg.fb, e.idx) EXCEPT
                                    ![e.idx + 1].data = e.data]]

\* socket.on('frame-deleted').
OnFrameDeleted(pg, e) ==
    IF e.fb # pg.fb THEN pg
    ELSE LET left == SelectSeq(pg.frames, LAMBDA f : f.idx # e.idx)
         IN  [pg EXCEPT !.frames = left,
                        !.cur = IF pg.cur >= Len(left)
                                THEN (IF Len(left) - 1 > 0 THEN Len(left) - 1 ELSE 0)
                                ELSE pg.cur]

\* socket.on('flipbook-deleted').
OnFlipbookDeleted(pg, e) ==
    IF e.fb # pg.fb THEN pg
    ELSE [pg EXCEPT !.fb = NoId, !.frames = << >>, !.cur = 0]

\* The page handles the next event of its socket; flipbook-renamed of the
\* current flipbook is Renamed below.
Handle(c) ==
    LET pg == client[c]
        e == Incoming(c)
        on == [pg EXCEPT !.seen = @ + 1]
    IN  /\ pg.seen < Len(log[c])
        /\ ~(e.type = "flipbook-renamed" /\ e.fb = pg.fb)
        /\ client' = [client EXCEPT ![c] =
              CASE ~e.rcvd -> on
                [] e.type = "flipbook-state" ->
                      [on EXCEPT !.frames = BuildFrames(e.frames, pg.fb)]
                [] e.type = "drawing-updated" -> OnDrawingUpdated(on, e)
                [] e.type = "frame-deleted" -> OnFrameDeleted(on, e)
                [] e.type = "flipbook-deleted" -> OnFlipbookDeleted(on, e)
                [] OTHER -> on]
        /\ UNCHANGED <<store, rooms, connected, reqs, pending, done, log, http>>

\* socket.on('flipbook-renamed') of the current flipbook: the page takes
\* the new id and emits join-flipbook for it.
Renamed(c) ==
    LET pg == client[c]
        e == Incoming(c)
    IN  /\ pg.seen < Len(log[c])
        /\ e.rcvd
        /\ e.type = "flipbook-renamed" /\ e.fb = pg.fb
        /\ Post(<< Request("join", c, Payload(e.newId, NoIdx, NoData, NoBy)) >>)
        /\ rooms' = [rooms EXCEPT ![c] = @ \cup {e.newId}]
        /\ client' = [client EXCEPT ![c] = [pg EXCEPT !.seen = @ + 1, !.fb = e.newId]]
        /\ UNCHANGED <<store, connected, done, log, http>>

\* The frame gestures of page A, frame deletes of both pages, and the
\* server's part in them.
NextFrames ==
    \/ \E i \in 0..1 : GoToFrame("A", i)
    \/ PreviousFrame("A")
    \/ NextFrame("A")
    \/ AddFrame("A")
    \/ TogglePlayback("A")
    \/ Tick("A")
    \/ \E c \in Conns, i \in 0..1 : DeleteFrame(c, i)
    \/ \E c \in Conns : \E w \in client[c].waits : AddFrameDone(c, w)
    \/ \E c \in Conns : \E w \in client[c].waits : DeleteFrameDone(c, w)
    \/ \E c \in Conns : Handle(c)
    \/ \E p \in pending : StoreExec(p)
    \/ \E p \in pending : DrawingUpdateResume(p)
    \/ \E p \in pending : FrameDeleteResume(p)
    \/ \E p \in pending : RouteResume(p)
    \/ \E p \in pending : RouteCatch(p)

SpecFrames == Init /\ [][NextFrames]_vars

----------------------------------------------------------------------------
\* The page's frame list.

\* Page c has deleted one frame and nothing else was asked of the server:
\* its frame-delete and its DELETE are the only requests, both succeeded,
\* the page has handled the echoed frame-deleted and the answer of the DELETE.
DeletedOneFrame(c) ==
    /\ Len(reqs) = 2
    /\ reqs[1].kind = "delete" /\ reqs[1].conn = c
    /\ reqs[2].kind = "rest-delete"
    /\ pending = {}
    /\ \A d \in done : d.ok
    /\ client[c].waits = {}
    /\ client[c].seen = Len(log[c])
    /\ \E j \in DOMAIN log[c] : log[c][j].type = "frame-deleted" /\ log[c][j].op = 1

\* C31: when a page has deleted one frame of its flipbook, and the answer
\* of the DELETE and the echoed frame-deleted event have both been handled,
\* in whichever order, its frame list is exactly one frame shorter than it
\* was.
C31_OneFrameShorter ==
    \A c \in Conns :
        DeletedOneFrame(c) =>
            Len(client[c].frames) + 1 = Len(ListFrames(InitStore, "cat"))

\* C32: on every page that awaits no answer the frame list is dense and
\* self-consistent: the frame at position i has frameIndex i.
C32_FramesNumbered ==
    \A c \in Conns :
        client[c].waits = {} =>
            \A n \in DOMAIN client[c].frames : client[c].frames[n].idx = n - 1

\* C33: on every page that awaits no answer and has a non-empty frame
\* list, 0 <= currentFrameIndex < frames.length.
C33_CurrentFrameInRange ==
    \A c \in Conns :
        (client[c].waits = {} /\ client[c].frames # << >>) =>
            /\ 0 <= client[c].cur
            /\ client[c].cur < Len(client[c].frames)

\* C39: every frame-delete being sent by deleteFrame, which refuses when
\* the page's list has one frame or fewer, no frame-delete removes the last
\* stored frame of a flipbook.
C39_LastFrameKept ==
    [][\A p \in pending :
          LET r == reqs[p.id]
          IN  (r.kind = "delete" /\ Executes(p) /\ KeysOf(store, r.fb) # {}) =>
                  KeysOf(store', r.fb) # {}]_vars

\* Page B switches between the flipbooks, page A renames "cat" to "dog",
\* and the server's part in it.
NextRooms ==
    \/ \E fb \in {"cat", "dog"} : SelectFlipbook("B", fb)
    \/ RenameFlipbookWithName("A", "cat", "dog")
    \/ \E c \in Conns : \E w \in client[c].waits : RenameDone(c, w)
    \/ \E c \in Conns : Handle(c)
    \/ \E c \in Conns : Renamed(c)
    \/ \E p \in pending : StoreExec(p)
    \/ \E p \in pending : StoreRewrite(p)
    \/ \E p \in pending : RenameConflict(p)
    \/ \E p \in pending : RenameProceed(p)
    \/ \E p \in pending : RenameResume(p)
    \/ \E p \in pending : RenameCatch(p)
    \/ \E p \in pending : JoinFlipbookResume(p)

SpecRooms == Init /\ [][NextRooms]_vars

\* Page c has nothing left to handle: every event sent to its socket is
\* handled, it awaits no answer, and no request of its socket is in flight.
Quiet(c) ==
    /\ client[c].seen = Len(log[c])
    /\ client[c].waits = {}
    /\ \A p \in pending : reqs[p.id].conn # c

\* C34: once a page has handled everything sent to it, its socket is a
\* member of the room of the page's current flipbook and of no other room,
\* also after the page has switched flipbooks and after its flipbook was
\* renamed, by itself or by another page.
C34_OnlyCurrentRoom ==
    \A c \in Conns :
        (Quiet(c) /\ client[c].fb # NoId) => rooms[c] = {client[c].fb}

====
